---------------------------- MODULE Spec2Model ----------------------------
(***************************************************************************)
(* A model of the client-side data/sync layer of the messaging client and  *)
(* of the hosted tables it talks to.  The tables, their uniqueness         *)
(* constraints and their row-level policies are those of                   *)
(* supabase/migrations; the handlers are those of the React hooks and      *)
(* views.  Each subsystem (contacts, stories, ...) has its own variables   *)
(* and its own specification; a specification leaves the variables of the  *)
(* other subsystems unchanged.                                             *)
(*                                                                         *)
(* A row-level policy is modelled by its predicate: a SELECT, UPDATE or    *)
(* DELETE only touches the rows the USING predicate admits (other rows are *)
(* skipped without an error), an INSERT is rejected when WITH CHECK fails. *)
(* An awaited gateway call is a point where other handlers may run; a      *)
(* call that is started but not awaited completes in a later step.         *)
(* An insert followed by select().single() is taken to answer with the     *)
(* inserted row.  Changes of the published tables go through a log that    *)
(* the realtime service processes in order; it hands a change to the       *)
(* subscribers that may select the changed row at that moment.  The        *)
(* presence service applies the track calls of a channel in order and      *)
(* sends every resulting state to the joined channels.  Timeouts are       *)
(* timers that fire some time after they are armed; time itself is only    *)
(* measured for story expiry.                                              *)
(*                                                                         *)
(* Three components are also modelled on their own, apart from the store:  *)
(* the StoryViewer with its progress timer (ticks of 100 ms), the Auth     *)
(* page's form validation, and the CreateStoryDialog with the row it       *)
(* publishes.  A multi-row insert is one statement: all its rows are       *)
(* written or none.  A track call on a channel that is removed is never    *)
(* applied, but its promise is settled, so its caller resumes.             *)
(***************************************************************************)
EXTENDS Integers, Sequences, FiniteSets, TLC

VARIABLES
  \* ---- contacts: table public.contacts and the ContactsView sessions
  contactRows,     \* the rows of public.contacts
  nextContactId,   \* the next row id gen_random_uuid() hands out
  contacts,        \* per user: ContactsView state `contacts` (a sequence)
  pendingReceived, \* per user: ContactsView state `pendingReceived`
  pendingSent,     \* per user: ContactsView state `pendingSent`
  cFetching,       \* per user: a fetchContacts() run is in flight
  dlgUsers,        \* per user: AddContactDialog state `users` (search result)
  cToast           \* per user: the last toast shown by the contacts views

VARIABLES
  \* ---- stories: tables public.stories, public.story_views, and the
  \* StoriesView / StoryViewer session of one signed-in user (Me)
  now,             \* the wall clock, in units of 24 hours
  storyRows,       \* the rows of public.stories
  nextStoryId,
  storyViews,      \* public.story_views: how many rows each (story, viewer) has
  myStories,       \* StoriesView state `myStories`
  groupedStories,  \* StoriesView state `groupedStories`
  sPc,             \* where the running fetchStories is: idle, stories, views
  sIssuedAt,       \* the `new Date()` the running fetchStories sent
  sGrouped,        \* fetchStories local `grouped`, between its two queries
  viewingStories,  \* StoriesView state `viewingStories` (NoView for null)
  currentIndex,    \* StoryViewer state `currentIndex`
  upsertsInFlight  \* story ids whose story_views upsert is on its way

VARIABLES
  \* ---- conversations: tables public.conversations and
  \* public.conversation_members
  convRows,        \* the rows of public.conversations
  memberRows,      \* the rows of public.conversation_members
  nextConvId,
  nextMemberId,
  convClock,       \* the database clock now(), one tick per write
  wal              \* changes of published tables the realtime service has
                   \* not yet processed, oldest first

VARIABLES
  \* ---- conversation lists: the useConversations sessions and
  \* createConversation of the creator
  conversations,   \* per session: useConversations state `conversations`
  fetches,         \* per session: the fetchConversations runs in flight
  evPending,       \* per session: change notifications not yet handled
  crPc,            \* where the running createConversation is
  crArgs,          \* its arguments
  crConv,          \* its local `conv` (the id of the inserted row)
  crResult         \* what the last createConversation returned

VARIABLES
  \* ---- composer: table public.messages and the ChatView of Me on the
  \* open conversation
  msgRows,         \* the rows of public.messages
  nextMsgId,
  newMessage,      \* ChatView state `newMessage`
  selectedFile,    \* ChatView state `selectedFile` (NoFile for null)
  sending,         \* ChatView state `sending`
  hsPc,            \* where the running handleSend is: idle, upload, insert, touch
  hsText,          \* the `newMessage` the running handleSend closed over
  hsFile,          \* the `selectedFile` the running handleSend closed over
  hsFileUrl,       \* handleSend local `fileUrl`
  hsFileName,      \* handleSend local `fileName`
  hsType,          \* handleSend local `messageType`
  smError,         \* the `error` the last sendMessage call returned
  sendToast        \* the last toast shown by handleSend

VARIABLES
  \* ---- typing: the presence channel of the open conversation and the
  \* useTypingIndicator of each session that has it open
  chan,            \* per session: its channel is joining or joined
  outbox,          \* per session: track() calls the service has not applied
  presence,        \* the service's presence state: per session, its payload
  contPending,     \* per session: answered startTyping calls not yet resumed
  timer,           \* per session: typingTimeoutRef holds a live timeout
  inbox,           \* per session: presence states sent to it, not yet handled
  typingUsers,     \* per session: useTypingIndicator state `typingUsers`
  tInput,          \* per session: how many characters the input holds
  tActs,           \* per session: how many input changes and sends so far
  tLast,           \* per session: what the last of them was
  strayTimers      \* per session: live timeouts the ref no longer holds

VARIABLES
  \* ---- message list: useMessages of the ChatView of "a" on the open
  \* conversation, and the sends of the other member
  messages,        \* useMessages state `messages`, as the list of row ids
  mLoading,        \* useMessages state `loading`
  mFetches,        \* the fetchMessages runs in flight
  msgEvents,       \* INSERT notifications sent to the messages channel
  mHandlers,       \* the INSERT callbacks that are at their await
  rSent,           \* how many messages the other member has sent
  rPc,             \* where the other member's sendMessage is: idle, touch
  mToast           \* the last toast of handleDeleteMessage

VARIABLES
  \* ---- a StoryViewer on its own
  vOpen,           \* the viewer is rendered
  vLen,            \* props: stories.length
  vOnNextUser,     \* props: an onNextUser callback is provided
  vIndex,          \* StoryViewer state `currentIndex`
  progress,        \* StoryViewer state `progress`
  isPaused,        \* StoryViewer state `isPaused`
  nextUserCalls,   \* how many times onNextUser has been called
  closeCalls,      \* how many times onClose has been called
  vMounts          \* how many viewers have been rendered so far

VARIABLES
  \* ---- the Auth page
  isLogin,         \* Auth state `isLogin`
  email,           \* Auth state `email`
  password,        \* Auth state `password`
  username,        \* Auth state `username`
  aLoading,        \* Auth state `loading`
  errors,          \* Auth state `errors`: per field, its message or ""
  aPc,             \* the request handleSubmit awaits: none, signIn, signUp
  aRequests,       \* how many signIn / signUp requests have been issued
  aUser,           \* useAuth().user is set
  aToast           \* the last toast of handleSubmit

VARIABLES
  \* ---- CreateStoryDialog
  mode,            \* CreateStoryDialog state `mode`
  storyContent,    \* CreateStoryDialog state `content`
  backgroundColor, \* CreateStoryDialog state `backgroundColor`
  imageFile,       \* CreateStoryDialog state `imageFile` (imagePreview goes with it)
  creating,        \* CreateStoryDialog state `creating`
  csPc,            \* where handleCreate is: idle, upload, insert
  csArgs,          \* the state handleCreate was called with, and its imageUrl
  dlgStories,      \* the stories rows published through the dialog
  csToast          \* the last toast of handleCreate

VARIABLES
  \* ---- the mark-as-read sweep of ChatView
  sweeps,          \* how many sweeps have reached the gateway
  sweepTargets     \* the ids the last sweep's filters matched, and whose it was

contactVars == <<contactRows, nextContactId, contacts, pendingReceived,
                 pendingSent, cFetching, dlgUsers, cToast>>

storyVars == <<now, storyRows, nextStoryId, storyViews, myStories,
               groupedStories, sPc, sIssuedAt, sGrouped, viewingStories,
               currentIndex, upsertsInFlight>>

convTables == <<convRows, memberRows, nextConvId, nextMemberId, convClock, wal>>

convListVars == <<conversations, fetches, evPending, crPc, crArgs, crConv,
                  crResult>>

composerVars == <<msgRows, nextMsgId, newMessage, selectedFile, sending, hsPc,
                  hsText, hsFile, hsFileUrl, hsFileName, hsType, smError,
                  sendToast>>

typingVars == <<chan, outbox, presence, contPending, timer, inbox, typingUsers,
                tInput, tActs, tLast, strayTimers>>

msgListVars == <<messages, mLoading, mFetches, msgEvents, mHandlers, rSent, rPc,
                 mToast>>

VARIABLES
  \* ---- useMessages across a change of conversation
  swConversationId, \* the conversationId passed to useMessages
  swRows,           \* the rows of public.messages: id and conversation
  swMessages,       \* useMessages state `messages`
  swFetches,        \* the fetchMessages runs in flight
  swEvents,         \* INSERT notifications on their way to the channel
  swHandlers,       \* the INSERT callbacks that are at their await
  swSwitches        \* how many times another conversation was selected

VARIABLES
  \* ---- useProfile's online flag
  pMounted,        \* the mounted components that call useProfile
  pUpdates,        \* the is_online values of the update requests in flight
  isOnline,        \* profiles.is_online of the user
  docHidden,       \* document.hidden
  pActs            \* how many mounts, unmounts and visibility changes so far

viewerVars == <<vOpen, vLen, vOnNextUser, vIndex, progress, isPaused,
                nextUserCalls, closeCalls, vMounts>>

\* The subsystems of the first part of the module, and those added after
coreVars == <<contactVars, storyVars, convTables, convListVars, composerVars,
              typingVars, msgListVars>>

authVars == <<isLogin, email, password, username, aLoading, errors, aPc,
              aRequests, aUser, aToast>>

storyDialogVars == <<mode, storyContent, backgroundColor, imageFile, creating, csPc,
                     csArgs, dlgStories, csToast>>

readVars == <<sweeps, sweepTargets>>

switchVars == <<swConversationId, swRows, swMessages, swFetches, swEvents,
                swHandlers, swSwitches>>

profileVars == <<pMounted, pUpdates, isOnline, docHidden, pActs>>

lateVars == <<switchVars, profileVars>>

extVars == <<viewerVars, authVars, storyDialogVars, readVars, lateVars>>

vars == <<coreVars, extVars>>

\* What the handlers of one subsystem leave alone.
nonContactVars == <<storyVars, convTables, convListVars, composerVars, typingVars,
                    msgListVars, extVars>>

nonStoryVars == <<contactVars, convTables, convListVars, composerVars, typingVars,
                  msgListVars, extVars>>

nonComposerVars == <<contactVars, storyVars, convListVars, typingVars, msgListVars, extVars>>

nonConvListVars == <<contactVars, storyVars, composerVars, typingVars, msgListVars, extVars>>

nonMsgListVars == <<contactVars, storyVars, convTables, convListVars, composerVars,
                    typingVars, extVars>>

nonTypingVars == <<contactVars, storyVars, convTables, convListVars, composerVars,
                   msgListVars, extVars>>

nonViewerVars == <<coreVars, authVars, storyDialogVars, readVars, lateVars>>

nonAuthVars == <<coreVars, viewerVars, storyDialogVars, readVars, lateVars>>

nonStoryDialogVars == <<coreVars, viewerVars, authVars, readVars, lateVars>>

nonSwitchVars == <<coreVars, viewerVars, authVars, storyDialogVars, readVars,
                   profileVars>>

nonProfileVars == <<coreVars, viewerVars, authVars, storyDialogVars, readVars,
                    switchVars>>

---------------------------------------------------------------------------
(* Generic helpers *)

RECURSIVE SeqCount(_, _)
SeqCount(x, s) ==
  IF s = <<>> THEN 0
  ELSE (IF Head(s) = x THEN 1 ELSE 0) + SeqCount(x, Tail(s))

\* The rows of a set in increasing id order (the order the table returns them).
RECURSIVE SortById(_)
SortById(S) ==
  IF S = {} THEN <<>>
  ELSE LET m == CHOOSE r \in S : \A q \in S : r.id <= q.id
       IN  <<m>> \o SortById(S \ {m})

SeqMap(Op(_), s) == [i \in 1..Len(s) |-> Op(s[i])]

SeqRange(s) == {s[i] : i \in 1..Len(s)}

---------------------------------------------------------------------------
(* Contacts *)

Users == {"a", "b"}

\* How many rows the contacts table is given in one run of the model.
MaxContactInserts == 3

\* CREATE POLICY "Users can view their contacts": USING
ContactsSelectPolicy(uid, r) == r.user_id = uid \/ r.contact_id = uid

\* CREATE POLICY "Users can add contacts": WITH CHECK
ContactsInsertPolicy(uid, r) == r.user_id = uid

\* CREATE POLICY "Users can update contact status": USING
ContactsUpdatePolicy(uid, r) == r.user_id = uid \/ r.contact_id = uid

\* CREATE POLICY "Users can remove contacts": USING
ContactsDeletePolicy(uid, r) == r.user_id = uid

\* UNIQUE(user_id, contact_id): would inserting (u, c) violate it?
ContactsUniqueViolationNever(rows, u, c) == FALSE

ContactsUniqueViolation(rows, u, c) ==
  \E r \in rows : r.user_id = u /\ r.contact_id = c

\* fetchContacts, first query: accepted rows with user_id = me, each carrying
\* contact_profile (the profile of contact_id).
AcceptedAsUser(uid, rows) ==
  SeqMap(LAMBDA r : [id |-> r.id, contact_profile |-> r.contact_id],
         SortById({r \in rows : /\ ContactsSelectPolicy(uid, r)
                                /\ r.user_id = uid
                                /\ r.status = "accepted"}))

\* fetchContacts, second query: accepted rows with contact_id = me, re-labelled
\* so that contact_profile is the user_profile (the profile of user_id).
AcceptedAsContact(uid, rows) ==
  SeqMap(LAMBDA r : [id |-> r.id, contact_profile |-> r.user_id],
         SortById({r \in rows : /\ ContactsSelectPolicy(uid, r)
                                /\ r.contact_id = uid
                                /\ r.status = "accepted"}))

\* fetchContacts: `allAccepted`, the merge of both directions.
AllAccepted(uid, rows) == AcceptedAsUser(uid, rows) \o AcceptedAsContact(uid, rows)

\* fetchContacts: `received`
PendingReceivedOf(uid, rows) ==
  {r \in rows : /\ ContactsSelectPolicy(uid, r)
                /\ r.contact_id = uid /\ r.status = "pending"}

\* fetchContacts: `sent`
PendingSentOf(uid, rows) ==
  {r \in rows : /\ ContactsSelectPolicy(uid, r)
                /\ r.user_id = uid /\ r.status = "pending"}

\* ContactsView: existingContactIds, from the local lists
ExistingContactIds(u) ==
  {c.contact_profile : c \in SeqRange(contacts[u])}
    \cup {r.contact_id : r \in pendingSent[u]}
    \cup {r.user_id : r \in pendingReceived[u]}

\* The toast handleSendRequest shows for the error the insert returned.
SendToast(code) ==
  IF code = "none" THEN "sent"
  ELSE IF code = "23505" THEN "already" ELSE "error"

\* The outcome of INSERT INTO contacts (user_id, contact_id, status) by uid.
ContactsInsertCode(uid, rows, u, c) ==
  IF ~ContactsInsertPolicy(uid, [user_id |-> u, contact_id |-> c]) THEN "42501"
  ELSE IF ContactsUniqueViolation(rows, u, c) THEN "23505"
  ELSE "none"

InitContacts ==
  /\ contactRows = {}
  /\ nextContactId = 1
  /\ contacts = [u \in Users |-> <<>>]
  /\ pendingReceived = [u \in Users |-> {}]
  /\ pendingSent = [u \in Users |-> {}]
  /\ cFetching = [u \in Users |-> TRUE]
  /\ dlgUsers = [u \in Users |-> {}]
  /\ cToast = [u \in Users |-> "none"]

\* The user opens the contacts tab again: a fresh ContactsView, whose mount
\* effect starts fetchContacts.
MountContactsView(u) ==
  /\ ~cFetching[u]
  /\ contacts' = [contacts EXCEPT ![u] = <<>>]
  /\ pendingReceived' = [pendingReceived EXCEPT ![u] = {}]
  /\ pendingSent' = [pendingSent EXCEPT ![u] = {}]
  /\ cFetching' = [cFetching EXCEPT ![u] = TRUE]
  /\ dlgUsers' = [dlgUsers EXCEPT ![u] = {}]
  /\ UNCHANGED <<contactRows, nextContactId, cToast>>
  /\ UNCHANGED nonContactVars

\* A fetchContacts run completes: the three lists are replaced.
FetchContactsDone(u) ==
  /\ cFetching[u]
  /\ contacts' = [contacts EXCEPT ![u] = AllAccepted(u, contactRows)]
  /\ pendingReceived' =
       [pendingReceived EXCEPT ![u] = PendingReceivedOf(u, contactRows)]
  /\ pendingSent' = [pendingSent EXCEPT ![u] = PendingSentOf(u, contactRows)]
  /\ cFetching' = [cFetching EXCEPT ![u] = FALSE]
  /\ UNCHANGED <<contactRows, nextContactId, dlgUsers, cToast>>
  /\ UNCHANGED nonContactVars

\* AddContactDialog.searchUsers: every other profile that is not in
\* existingContactIds as the view knows them.
SearchUsers(u) ==
  /\ dlgUsers' = [dlgUsers EXCEPT ![u] = (Users \ {u}) \ ExistingContactIds(u)]
  /\ dlgUsers'[u] # dlgUsers[u]
  /\ UNCHANGED <<contactRows, nextContactId, contacts, pendingReceived,
                 pendingSent, cFetching, cToast>>
  /\ UNCHANGED nonContactVars

\* AddContactDialog.handleSendRequest(profileId)
HandleSendRequest(u, p) ==
  /\ p \in dlgUsers[u]
  /\ LET code == ContactsInsertCode(u, contactRows, u, p) IN
       /\ cToast' = [cToast EXCEPT ![u] = SendToast(code)]
       /\ IF code = "none"
          THEN /\ nextContactId <= MaxContactInserts
               /\ contactRows' = contactRows \cup
                    {[id |-> nextContactId, user_id |-> u, contact_id |-> p,
                      status |-> "pending"]}
               /\ nextContactId' = nextContactId + 1
               /\ cFetching' = [cFetching EXCEPT ![u] = TRUE]
               /\ dlgUsers' = [dlgUsers EXCEPT ![u] = dlgUsers[u] \ {p}]
          ELSE UNCHANGED <<contactRows, nextContactId, cFetching, dlgUsers>>
  /\ UNCHANGED <<contacts, pendingReceived, pendingSent>>
  /\ UNCHANGED nonContactVars

\* ContactsView.handleAccept(contactId), offered on pendingReceived rows
HandleAccept(u, id, ok) ==
  /\ \E r \in pendingReceived[u] : r.id = id
  /\ IF ok
       THEN /\ contactRows' =
                 {IF r.id = id /\ ContactsUpdatePolicy(u, r)
                  THEN [r EXCEPT !.status = "accepted"] ELSE r : r \in contactRows}
            /\ cToast' = [cToast EXCEPT ![u] = "accepted"]
            /\ cFetching' = [cFetching EXCEPT ![u] = TRUE]
       ELSE /\ cToast' = [cToast EXCEPT ![u] = "accept-error"]
            /\ UNCHANGED <<contactRows, cFetching>>
  /\ UNCHANGED <<nextContactId, contacts, pendingReceived, pendingSent, dlgUsers>>
  /\ UNCHANGED nonContactVars

\* ContactsView.handleReject(contactId), offered on pendingReceived rows
\* (reject) and on pendingSent rows (cancel)
HandleReject(u, id, ok) ==
  /\ \E r \in pendingReceived[u] \cup pendingSent[u] : r.id = id
  /\ IF ok
       THEN /\ contactRows' =
                 {r \in contactRows : ~(r.id = id /\ ContactsDeletePolicy(u, r))}
            /\ cToast' = [cToast EXCEPT ![u] = "rejected"]
            /\ cFetching' = [cFetching EXCEPT ![u] = TRUE]
       ELSE /\ cToast' = [cToast EXCEPT ![u] = "reject-error"]
            /\ UNCHANGED <<contactRows, cFetching>>
  /\ UNCHANGED <<nextContactId, contacts, pendingReceived, pendingSent, dlgUsers>>
  /\ UNCHANGED nonContactVars

NextContacts ==
  \/ \E u \in Users : MountContactsView(u)
  \/ \E u \in Users : FetchContactsDone(u)
  \/ \E u \in Users : SearchUsers(u)
  \/ \E u \in Users, p \in Users : HandleSendRequest(u, p)
  \/ \E u \in Users, id \in 1..MaxContactInserts, ok \in BOOLEAN :
       HandleAccept(u, id, ok)
  \/ \E u \in Users, id \in 1..MaxContactInserts, ok \in BOOLEAN :
       HandleReject(u, id, ok)

\* Is there an accepted contact relationship between a and b (either row)?
AcceptedPair(a, b) ==
  \E r \in contactRows :
    /\ r.status = "accepted"
    /\ \/ (r.user_id = a /\ r.contact_id = b)
       \/ (r.user_id = b /\ r.contact_id = a)

ProfilesOf(list) == SeqMap(LAMBDA c : c.contact_profile, list)

\* C1: for every accepted pair (a, b), the accepted list fetchContacts computes
\* in a's session holds b's profile exactly once, and the one computed in b's
\* session holds a's profile exactly once, whoever sent the request.
C1_CounterpartExactlyOnce ==
  \A a \in Users : \A b \in Users \ {a} :
    AcceptedPair(a, b) =>
      /\ SeqCount(b, ProfilesOf(AllAccepted(a, contactRows))) = 1
      /\ SeqCount(a, ProfilesOf(AllAccepted(b, contactRows))) = 1

\* C1, the case: some accepted pair exists and a session has fetched it.
C1_Witness ==
  \E a \in Users : \E b \in Users \ {a} :
    AcceptedPair(a, b) /\ ~cFetching[a] /\ Len(contacts[a]) > 0

RowsOfPair(rows, u, c) == {r \in rows : r.user_id = u /\ r.contact_id = c}

\* C2: a send-request from u to c when a row for the ordered pair (u, c)
\* exists is answered with the unique-violation code 23505, shown as "already
\* requested" and not as the generic error, and leaves exactly one (u, c) row.
C2_DuplicateRequestConflicts ==
  [][\A u \in Users, c \in Users :
       (HandleSendRequest(u, c) /\ RowsOfPair(contactRows, u, c) # {}) =>
         /\ ContactsInsertCode(u, contactRows, u, c) = "23505"
         /\ cToast'[u] = "already"
         /\ Cardinality(RowsOfPair(contactRows', u, c)) = 1]_vars

\* C2, the case: a duplicate request was sent and answered as a conflict.
C2_Witness ==
  \E u \in Users : cToast[u] = "already" /\ pendingSent[u] = {} /\
     \E c \in Users : RowsOfPair(contactRows, u, c) # {}

\* C13: when handleReject, called by the recipient of a pending request
\* (reject) or by its sender (cancel), reports success, the request's row is
\* no longer in the store, so that no later fetch of either party lists it.
C13_RejectDeletesEdge ==
  [][\A u \in Users : \A id \in 1..MaxContactInserts :
       HandleReject(u, id, TRUE) => \A r \in contactRows' : r.id # id]_vars

\* The recipient has rejected a request, has been told "Demande refusee",
\* has fetched again, and the request is still pending in both parties'
\* lists.
C13_Witness ==
  \E r \in contactRows :
    /\ r.status = "pending"
    /\ cToast[r.contact_id] = "rejected"
    /\ ~cFetching[r.contact_id] /\ ~cFetching[r.user_id]
    /\ r \in pendingReceived[r.contact_id]
    /\ r \in pendingSent[r.user_id]

---------------------------------------------------------------------------
(* Stories *)

\* The signed-in user whose StoriesView session is modelled; the other
\* authors act on the tables only.
Me == "a"

Authors == {"a", "b", "c"}

\* The other users whose StoryViewer is modelled (by its upsert alone)
RemoteViewers == {"b"}

\* How many stories are published, and how far the clock runs.
MaxStories == 2
MaxTime == 1

\* expires_at DEFAULT (now() + interval '24 hours'), in clock units
StoryLifetime == 1

NoView == [user |-> "none", stories |-> <<>>]

\* CREATE POLICY "Users can view stories from contacts": USING (true)
StoriesSelectPolicy(uid, r) == TRUE

\* CREATE POLICY "Users can create their own stories": WITH CHECK
StoriesInsertPolicy(uid, r) == uid = r.user_id

\* A story_views row is a pair <<story_id, viewer_id>>; the table is the
\* number of rows it holds for each pair.
ViewKeys == (1..MaxStories) \X Authors

\* CREATE POLICY "Story owners can view who saw their stories": USING
StoryViewsSelectPolicy(uid, r, stories) ==
  \/ \E st \in stories : st.id = r[1] /\ st.user_id = uid
  \/ r[2] = uid

\* CREATE POLICY "Users can mark stories as viewed": WITH CHECK
StoryViewsInsertPolicy(uid, r) == uid = r[2]

\* story_views has no UPDATE policy: with row-level security enabled, no row
\* may be updated.
StoryViewsUpdatePolicy(uid, r) == FALSE

\* UNIQUE(story_id, viewer_id): the rows an insert of (st, v) conflicts with
StoryViewConflicts(views, st, v) ==
  {r \in ViewKeys : r = <<st, v>> /\ views[r] > 0}

\* upsert({story_id, viewer_id}, {onConflict: "story_id,viewer_id"}) by uid:
\* INSERT ... ON CONFLICT (story_id, viewer_id) DO UPDATE.  Without a
\* conflict it is an insert (WITH CHECK of the insert policy); on a conflict
\* it updates the existing row, which the update policy must admit, and the
\* statement is rejected (42501) when it does not.
UpsertStoryViewCode(uid, views, st, v) ==
  IF StoryViewConflicts(views, st, v) = {}
  THEN IF StoryViewsInsertPolicy(uid, <<st, v>>)
       THEN "none" ELSE "42501"
  ELSE IF \A r \in StoryViewConflicts(views, st, v) :
            StoryViewsUpdatePolicy(uid, r)
       THEN "none" ELSE "42501"

UpsertStoryViewRows(uid, views, st, v) ==
  IF UpsertStoryViewCode(uid, views, st, v) = "none"
     /\ StoryViewConflicts(views, st, v) = {}
  THEN [views EXCEPT ![<<st, v>>] = @ + 1]
  ELSE views

\* .order("created_at", {ascending: false})
RECURSIVE SortByCreatedDesc(_)
SortByCreatedDesc(S) ==
  IF S = {} THEN <<>>
  ELSE LET m == CHOOSE r \in S : \A q \in S :
                  \/ r.created_at > q.created_at
                  \/ (r.created_at = q.created_at /\ r.id >= q.id)
       IN  <<m>> \o SortByCreatedDesc(S \ {m})

\* fetchStories, first query: .gt("expires_at", t), newest first
ActiveStories(uid, rows, t) ==
  SortByCreatedDesc({r \in rows : StoriesSelectPolicy(uid, r) /\ r.expires_at > t})

\* stories.filter((s) => s.user_id === user.id)
MineOf(uid, sts) == SelectSeq(sts, LAMBDA st : st.user_id = uid)

\* stories.filter((s) => s.user_id !== user.id)
OthersOf(uid, sts) == SelectSeq(sts, LAMBDA st : st.user_id # uid)

\* The authors of a story sequence, in order of first appearance (the key
\* order of the `grouped` object).
RECURSIVE GroupKeys(_)
GroupKeys(sts) ==
  IF sts = <<>> THEN <<>>
  ELSE <<Head(sts).user_id>> \o
       GroupKeys(SelectSeq(Tail(sts), LAMBDA st : st.user_id # Head(sts).user_id))

\* othersStories.forEach(...): one group per author, hasViewed false
GroupStories(sts) ==
  SeqMap(LAMBDA a : [user |-> a,
                     stories |-> SelectSeq(sts, LAMBDA st : st.user_id = a),
                     hasViewed |-> FALSE],
         GroupKeys(sts))

\* fetchStories, second query: the story ids Me has a view row for
ViewedIds(uid, views, stories, storyIds) ==
  {r[1] : r \in {q \in ViewKeys : /\ views[q] > 0
                                    /\ StoryViewsSelectPolicy(uid, q, stories)
                                    /\ q[2] = uid
                                    /\ q[1] \in storyIds}}

\* g.hasViewed = g.stories.every((s) => viewedIds.has(s.id))
HasViewedSome(g, viewedIds) ==
  \E k \in 1..Len(g.stories) : g.stories[k].id \in viewedIds

HasViewed(g, viewedIds) ==
  \A k \in 1..Len(g.stories) : g.stories[k].id \in viewedIds

WithViewed(groups, viewedIds) ==
  SeqMap(LAMBDA g : [g EXCEPT !.hasViewed = HasViewed(g, viewedIds)], groups)

\* Sort: unviewed first (a stable sort)
SortGroups(groups) ==
  SelectSeq(groups, LAMBDA g : ~g.hasViewed) \o
  SelectSeq(groups, LAMBDA g : g.hasViewed)

InitStories ==
  /\ now = 0
  /\ storyRows = {}
  /\ nextStoryId = 1
  /\ storyViews = [r \in ViewKeys |-> 0]
  /\ myStories = <<>>
  /\ groupedStories = <<>>
  /\ sPc = "stories"
  /\ sIssuedAt = 0
  /\ sGrouped = <<>>
  /\ viewingStories = NoView
  /\ currentIndex = 0
  /\ upsertsInFlight = {}

\* StoryViewer: const currentStory = stories[currentIndex] (0-based);
\* <<>> stands for undefined.
CurrentStoryOf(view, idx) ==
  IF idx >= 0 /\ idx < Len(view.stories) THEN <<view.stories[idx + 1]>> ELSE <<>>

\* StoryViewer "Mark story as viewed" effect: it runs when currentStory or the
\* story user changed, and starts an upsert unless the stories are Me's own.
MarkViewedEffect(view, idx) ==
  LET old == CurrentStoryOf(viewingStories, currentIndex)
      new == CurrentStoryOf(view, idx)
  IN  upsertsInFlight' =
        IF /\ view # NoView
           /\ new # <<>>
           /\ view.user # Me
           /\ (new # old \/ view.user # viewingStories.user)
        THEN upsertsInFlight \cup {new[1].id}
        ELSE upsertsInFlight

\* fetchStories() is called: the query is sent with the current time.
StartFetchStories ==
  /\ sPc' = "stories"
  /\ sIssuedAt' = now
  /\ sGrouped' = <<>>

\* The clock advances by 24 hours; no request stays unanswered that long.
Tick ==
  /\ now < MaxTime
  /\ sPc = "idle"
  /\ now' = now + 1
  /\ UNCHANGED <<storyRows, nextStoryId, storyViews, myStories,
                 groupedStories, sPc, sIssuedAt, sGrouped, viewingStories,
                 currentIndex, upsertsInFlight>>
  /\ UNCHANGED nonStoryVars

\* CreateStoryDialog.handleCreate succeeds for author u; in Me's session
\* onCreated is fetchStories.
CreateStory(u) ==
  /\ nextStoryId <= MaxStories
  /\ StoriesInsertPolicy(u, [user_id |-> u])
  /\ storyRows' = storyRows \cup
       {[id |-> nextStoryId, user_id |-> u, created_at |-> now,
         expires_at |-> now + StoryLifetime]}
  /\ nextStoryId' = nextStoryId + 1
  /\ IF u = Me THEN StartFetchStories ELSE UNCHANGED <<sPc, sIssuedAt, sGrouped>>
  /\ UNCHANGED <<now, storyViews, myStories, groupedStories,
                 viewingStories, currentIndex, upsertsInFlight>>
  /\ UNCHANGED nonStoryVars

\* fetchStories: the stories query answers.
FetchStoriesResult ==
  /\ sPc = "stories"
  /\ LET sts == ActiveStories(Me, storyRows, sIssuedAt)
         others == OthersOf(Me, sts)
     IN  /\ myStories' = MineOf(Me, sts)
         /\ IF Len(others) > 0
            THEN /\ sPc' = "views"
                 /\ sGrouped' = GroupStories(others)
                 /\ UNCHANGED groupedStories
            ELSE /\ sPc' = "idle"
                 /\ sGrouped' = <<>>
                 /\ groupedStories' = SortGroups(GroupStories(others))
  /\ UNCHANGED <<now, storyRows, nextStoryId, storyViews, sIssuedAt,
                 viewingStories, currentIndex, upsertsInFlight>>
  /\ UNCHANGED nonStoryVars

\* The story ids of all groups (storyIds)
StoryIdsOf(groups) ==
  UNION {{g.stories[k].id : k \in 1..Len(g.stories)} : g \in SeqRange(groups)}

\* fetchStories: the story_views query answers.
FetchViewsResult ==
  /\ sPc = "views"
  /\ groupedStories' =
       SortGroups(WithViewed(sGrouped,
                             ViewedIds(Me, storyViews, storyRows, StoryIdsOf(sGrouped))))
  /\ sPc' = "idle"
  /\ sGrouped' = <<>>
  /\ UNCHANGED <<now, storyRows, nextStoryId, storyViews, myStories,
                 sIssuedAt, viewingStories, currentIndex, upsertsInFlight>>
  /\ UNCHANGED nonStoryVars

\* An upsert started by Me's StoryViewer reaches the gateway; the viewer
\* ignores the answer (`.then()` without a handler).
UpsertArrives(st) ==
  /\ st \in upsertsInFlight
  /\ storyViews' = UpsertStoryViewRows(Me, storyViews, st, Me)
  /\ upsertsInFlight' = upsertsInFlight \ {st}
  /\ UNCHANGED <<now, storyRows, nextStoryId, myStories, groupedStories, sPc,
                 sIssuedAt, sGrouped, viewingStories, currentIndex>>
  /\ UNCHANGED nonStoryVars

\* Another user's StoryViewer marks a story of somebody else as viewed.
RemoteMarkViewed(v, st) ==
  /\ \E r \in storyRows : r.id = st /\ r.user_id # v
  /\ StoryViewConflicts(storyViews, st, v) = {}
  /\ storyViews' = UpsertStoryViewRows(v, storyViews, st, v)
  /\ UNCHANGED <<now, storyRows, nextStoryId, myStories, groupedStories, sPc,
                 sIssuedAt, sGrouped, viewingStories, currentIndex,
                 upsertsInFlight>>
  /\ UNCHANGED nonStoryVars

\* StoriesView.handleViewUserStories(group, index): the viewer opens.
HandleViewUserStories(i) ==
  /\ viewingStories = NoView
  /\ i \in 1..Len(groupedStories)
  /\ LET view == [user |-> groupedStories[i].user,
                  stories |-> groupedStories[i].stories]
     IN  /\ viewingStories' = view
         /\ currentIndex' = 0
         /\ MarkViewedEffect(view, 0)
  /\ UNCHANGED <<now, storyRows, nextStoryId, storyViews, myStories,
                 groupedStories, sPc, sIssuedAt, sGrouped>>
  /\ UNCHANGED nonStoryVars

\* StoriesView.handleViewMyStories, with stories of one's own
HandleViewMyStories ==
  /\ viewingStories = NoView
  /\ Len(myStories) > 0
  /\ viewingStories' = [user |-> Me, stories |-> myStories]
  /\ currentIndex' = 0
  /\ MarkViewedEffect(viewingStories', 0)
  /\ UNCHANGED <<now, storyRows, nextStoryId, storyViews, myStories,
                 groupedStories, sPc, sIssuedAt, sGrouped>>
  /\ UNCHANGED nonStoryVars

\* groupedStories.findIndex((g) => g.user.id === viewingStories.user.id),
\* 0-based, -1 when absent
CurrentUserIndex ==
  IF \E i \in 1..Len(groupedStories) : groupedStories[i].user = viewingStories.user
  THEN (CHOOSE i \in 1..Len(groupedStories) :
          /\ groupedStories[i].user = viewingStories.user
          /\ \A j \in 1..(i - 1) : groupedStories[j].user # viewingStories.user) - 1
  ELSE -1

\* StoriesView.handleNextUser: the view it sets (the StoryViewer stays mounted)
NextUserView ==
  IF CurrentUserIndex < Len(groupedStories) - 1
  THEN [user |-> groupedStories[CurrentUserIndex + 2].user,
        stories |-> groupedStories[CurrentUserIndex + 2].stories]
  ELSE NoView

\* StoriesView.handlePrevUser
PrevUserView ==
  IF CurrentUserIndex > 0
  THEN [user |-> groupedStories[CurrentUserIndex].user,
        stories |-> groupedStories[CurrentUserIndex].stories]
  ELSE viewingStories

\* StoryViewer.goToNext (right arrow, tap, or the progress timer)
GoToNext ==
  /\ viewingStories # NoView
  /\ IF currentIndex < Len(viewingStories.stories) - 1
     THEN /\ currentIndex' = currentIndex + 1
          /\ UNCHANGED viewingStories
     ELSE /\ viewingStories' = NextUserView
          /\ currentIndex' = IF NextUserView = NoView THEN 0 ELSE currentIndex
  /\ MarkViewedEffect(viewingStories', currentIndex')
  /\ UNCHANGED <<now, storyRows, nextStoryId, storyViews, myStories,
                 groupedStories, sPc, sIssuedAt, sGrouped>>
  /\ UNCHANGED nonStoryVars

\* StoryViewer.goToPrev
GoToPrev ==
  /\ viewingStories # NoView
  /\ IF currentIndex > 0
     THEN /\ currentIndex' = currentIndex - 1
          /\ UNCHANGED viewingStories
     ELSE /\ viewingStories' = PrevUserView
          /\ UNCHANGED currentIndex
  /\ <<viewingStories', currentIndex'>> # <<viewingStories, currentIndex>>
  /\ MarkViewedEffect(viewingStories', currentIndex')
  /\ UNCHANGED <<now, storyRows, nextStoryId, storyViews, myStories,
                 groupedStories, sPc, sIssuedAt, sGrouped>>
  /\ UNCHANGED nonStoryVars

\* StoryViewer onClose: setViewingStories(null); fetchStories()
CloseViewer ==
  /\ viewingStories # NoView
  /\ viewingStories' = NoView
  /\ currentIndex' = 0
  /\ StartFetchStories
  /\ UNCHANGED <<now, storyRows, nextStoryId, storyViews, myStories,
                 groupedStories, upsertsInFlight>>
  /\ UNCHANGED nonStoryVars

NextStories ==
  \/ Tick
  \/ \E u \in Authors : CreateStory(u)
  \/ FetchStoriesResult
  \/ FetchViewsResult
  \/ \E st \in 1..MaxStories : UpsertArrives(st)
  \/ \E v \in RemoteViewers, st \in 1..MaxStories : RemoteMarkViewed(v, st)
  \/ \E i \in 1..MaxStories : HandleViewUserStories(i)
  \/ HandleViewMyStories
  \/ GoToNext
  \/ GoToPrev
  \/ CloseViewer

\* C3: marking the same story viewed by the same viewer any number of times
\* leaves exactly one story_views row for the pair, and no marking, the
\* first or a repeated one, is answered with an error.
C3_RepeatedMarkIsIdempotent ==
  [][\A st \in 1..MaxStories :
       UpsertArrives(st) =>
         /\ storyViews'[<<st, Me>>] = 1
         /\ UpsertStoryViewCode(Me, storyViews, st, Me) = "none"]_vars

\* C3, the case: a story Me has already marked is being marked again.
C3_Witness ==
  \E st \in upsertsInFlight : storyViews[<<st, Me>>] = 1

ListedStories ==
  SeqRange(myStories) \cup
  UNION {SeqRange(g.stories) : g \in SeqRange(groupedStories)}

\* C5: a story whose expiry timestamp is in the past is in neither the
\* recent-updates listing nor the user's own story list.
C5_ExpiredStoriesNotListed ==
  \A st \in ListedStories : st.expires_at > now

\* C5, the case: an expired row is still in the table while Me has a
\* finished fetch.
C5_Witness ==
  /\ sPc = "idle"
  /\ \E st \in storyRows : st.expires_at <= now

---------------------------------------------------------------------------
(* Conversations: the tables *)

Null == <<"null">>

\* The conversation the ChatView is open on; it exists from the start.
OpenConv == 1

ConversationsSelectPolicy(uid, c, members) ==
  \E m \in members : m.conversation_id = c.id /\ m.user_id = uid

ConversationsInsertPolicy(uid, c) == TRUE

ConversationsUpdatePolicy(uid, c, members) ==
  \E m \in members : m.conversation_id = c.id /\ m.user_id = uid

MembersInsertPolicy(uid, m) == TRUE

InitConvTables ==
  /\ convRows = {[id |-> OpenConv, name |-> Null, is_group |-> FALSE,
                  created_by |-> "b", updated_at |-> 0]}
  /\ memberRows = {[id |-> 1, conversation_id |-> OpenConv, user_id |-> "b",
                    is_admin |-> TRUE],
                   [id |-> 2, conversation_id |-> OpenConv, user_id |-> "a",
                    is_admin |-> FALSE]}
  /\ nextConvId = OpenConv + 1
  /\ nextMemberId = 3
  /\ convClock = 0
  /\ wal = <<>>

\* A change of a published table, as the realtime service reads it
Change(table, op, id, conv) ==
  [table |-> table, op |-> op, id |-> id, conv |-> conv]

\* update conversations set updated_at = t where id = cid, as user uid
TouchConversation(uid, rows, members, cid, t) ==
  {IF c.id = cid /\ ConversationsUpdatePolicy(uid, c, members)
     THEN [c EXCEPT !.updated_at = t] ELSE c : c \in rows}

---------------------------------------------------------------------------
(* Composer: ChatView.handleSend, uploadFile, useMessages.sendMessage *)

MaxMessages == 1
MaxText == 2

\* Text is a sequence of characters; " " is the only whitespace drawn.
Chars == {"x", " "}

Texts == UNION {[1..n -> Chars] : n \in 0..MaxText}

\* String.prototype.trim
RECURSIVE TrimStart(_)
TrimStart(s) == IF s # <<>> /\ Head(s) = " " THEN TrimStart(Tail(s)) ELSE s

RECURSIVE TrimEnd(_)
TrimEnd(s) ==
  IF s # <<>> /\ s[Len(s)] = " " THEN TrimEnd(SubSeq(s, 1, Len(s) - 1)) ELSE s

Trim(s) == TrimEnd(TrimStart(s))

\* String.prototype.startsWith
StartsWith(s, prefix) ==
  Len(s) >= Len(prefix) /\ SubSeq(s, 1, Len(prefix)) = prefix

\* a || b on strings: the empty string and undefined are falsy
Undefined == <<"undefined">>

OrElse(a, b) == IF a = <<>> \/ a = Undefined THEN b ELSE a

Fichier == <<"Fichier">>

NoFile == [name |-> <<>>, type |-> <<>>, size |-> 0]

\* The files the picker can hand over: name, MIME type, size in MB.
Files ==
  {[name |-> <<"p", ".", "png">>, type |-> <<"image", "/", "png">>, size |-> 1],
   [name |-> <<"d", ".", "pdf">>, type |-> <<"application", "/", "pdf">>, size |-> 1],
   [name |-> <<"n">>, type |-> <<>>, size |-> 1],
   [name |-> <<"v", ".", "svg">>, type |-> <<"text", "/", "image", "/">>, size |-> 1],
   [name |-> <<"big", ".", "png">>, type |-> <<"image", "/", "png">>, size |-> 11]}

MaxFileSize == 10

\* handleSend: selectedFile.type.startsWith("image/") ? "image" : "file"
MessageTypeOf(file) ==
  IF StartsWith(file.type, <<"image", "/">>) THEN "image" ELSE "file"

\* handleSend: newMessage.trim() || (fileName || "Fichier")
SendContentNoTrim(text, fileName) == OrElse(text, OrElse(fileName, Fichier))

SendContent(text, fileName) == OrElse(Trim(text), OrElse(fileName, Fichier))

\* uploadFile: file.name.split(".").pop()
RECURSIVE FileExt(_)
FileExt(name) ==
  IF \E i \in 1..Len(name) : name[i] = "."
    THEN FileExt(Tail(name))
    ELSE name

\* uploadFile: the public URL of `${user.id}/${Date.now()}.${fileExt}`
PublicUrl(uid, file) == <<"url", uid>> \o FileExt(file.name)

MessagesInsertPolicy(uid, r, members) ==
  \E m \in members : m.conversation_id = r.conversation_id /\ m.user_id = uid

InitComposer ==
  /\ msgRows = {}
  /\ nextMsgId = 1
  /\ newMessage = <<>>
  /\ selectedFile = NoFile
  /\ sending = FALSE
  /\ hsPc = "idle"
  /\ hsText = <<>>
  /\ hsFile = NoFile
  /\ hsFileUrl = Undefined
  /\ hsFileName = Undefined
  /\ hsType = "text"
  /\ smError = "none"
  /\ sendToast = "none"

hsLocals == <<hsText, hsFile, hsFileUrl, hsFileName, hsType, smError>>

\* handleSend has returned: its locals are gone
HandleSendReturns ==
  /\ hsPc' = "idle"
  /\ hsText' = <<>>
  /\ hsFile' = NoFile
  /\ hsFileUrl' = Undefined
  /\ hsFileName' = Undefined
  /\ hsType' = "text"

\* ChatView.handleInputChange, the setNewMessage half (the typing half is in
\* the typing subsystem, whose variables it alone touches)
HandleInputChange(t) ==
  /\ newMessage' = t
  /\ UNCHANGED <<msgRows, nextMsgId, selectedFile, sending, hsPc, hsLocals, sendToast>>
  /\ UNCHANGED <<convTables, nonComposerVars>>

\* ChatView.handleFileSelect
HandleFileSelect(f) ==
  /\ IF f.size > MaxFileSize
       THEN sendToast' = "too-big" /\ UNCHANGED selectedFile
       ELSE selectedFile' = f /\ UNCHANGED sendToast
  /\ UNCHANGED <<msgRows, nextMsgId, newMessage, sending, hsPc, hsLocals>>
  /\ UNCHANGED <<convTables, nonComposerVars>>

\* FilePreview onRemove
RemoveFile ==
  /\ selectedFile # NoFile
  /\ selectedFile' = NoFile
  /\ UNCHANGED <<msgRows, nextMsgId, newMessage, sending, hsPc, hsLocals, sendToast>>
  /\ UNCHANGED <<convTables, nonComposerVars>>

\* handleSend up to its first await
HandleSend ==
  /\ ~((Trim(newMessage) = <<>> /\ selectedFile = NoFile) \/ sending)
  /\ sending' = TRUE
  /\ hsText' = newMessage
  /\ hsFile' = selectedFile
  /\ hsFileUrl' = Undefined
  /\ hsFileName' = Undefined
  /\ hsType' = "text"
  /\ smError' = "none"
  /\ hsPc' = IF selectedFile # NoFile THEN "upload" ELSE "insert"
  /\ UNCHANGED <<msgRows, nextMsgId, newMessage, selectedFile, sendToast>>
  /\ UNCHANGED <<convTables, nonComposerVars>>

\* uploadChatAttachment answers; an upload error is thrown to the catch
UploadDone(ok) ==
  /\ hsPc = "upload"
  /\ IF ok
       THEN /\ hsFileUrl' = PublicUrl("a", hsFile)
            /\ hsFileName' = hsFile.name
            /\ hsType' = MessageTypeOf(hsFile)
            /\ hsPc' = "insert"
            /\ UNCHANGED <<sending, sendToast, hsText, hsFile, smError>>
       ELSE /\ sendToast' = "error"
            /\ sending' = FALSE
            /\ HandleSendReturns
            /\ UNCHANGED smError
  /\ UNCHANGED <<msgRows, nextMsgId, newMessage, selectedFile>>
  /\ UNCHANGED <<convTables, nonComposerVars>>

NewMessageRow(id, uid, content, type, fileUrl, fileName) ==
  [id |-> id, conversation_id |-> OpenConv, sender_id |-> uid,
   content |-> content, message_type |-> type, file_url |-> fileUrl,
   file_name |-> fileName, is_read |-> FALSE, created_at |-> id]

\* sendMessage: return { error }, error being the insert's
SendMessageErrorWithTouch(insertOk, touchOk) ==
  IF ~insertOk THEN "insert-error"
  ELSE IF ~touchOk THEN "touch-error" ELSE "null"

SendMessageError(insertOk, touchOk) ==
  IF insertOk THEN "null" ELSE "insert-error"

\* sendMessage: the insert.  A failed insert is returned, not thrown, so
\* handleSend goes on to clear the composer.
SendMessageInsert(ok) ==
  /\ hsPc = "insert"
  /\ nextMsgId - 1 - rSent < MaxMessages
  /\ LET row == NewMessageRow(nextMsgId, "a", SendContent(hsText, hsFileName),
                              hsType, hsFileUrl, hsFileName)
     IN  IF ok /\ MessagesInsertPolicy("a", row, memberRows)
           THEN /\ msgRows' = msgRows \cup {row}
                /\ nextMsgId' = nextMsgId + 1
                /\ wal' = Append(wal, Change("messages", "INSERT", row.id, OpenConv))
                /\ hsPc' = "touch"
                /\ UNCHANGED <<newMessage, selectedFile, sending, hsLocals>>
           ELSE /\ newMessage' = <<>>
                /\ selectedFile' = NoFile
                /\ sending' = FALSE
                /\ HandleSendReturns
                /\ smError' = SendMessageError(FALSE, FALSE)
                /\ UNCHANGED <<msgRows, nextMsgId, wal>>
  /\ UNCHANGED sendToast
  /\ UNCHANGED <<convRows, memberRows, nextConvId, nextMemberId, convClock>>
  /\ UNCHANGED nonComposerVars

\* sendMessage: the update of conversations.updated_at, whose result is
\* not looked at, then the rest of handleSend
SendMessageTouch(ok) ==
  /\ hsPc = "touch"
  /\ convClock' = convClock + 1
  /\ convRows' = IF ok
                   THEN TouchConversation("a", convRows, memberRows, OpenConv,
                                          convClock + 1)
                   ELSE convRows
  /\ wal' = IF convRows' # convRows
             THEN Append(wal, Change("conversations", "UPDATE", OpenConv, OpenConv))
             ELSE wal
  /\ newMessage' = <<>>
  /\ selectedFile' = NoFile
  /\ sending' = FALSE
  /\ HandleSendReturns
  /\ smError' = SendMessageError(TRUE, ok)
  /\ UNCHANGED <<msgRows, nextMsgId, sendToast>>
  /\ UNCHANGED <<memberRows, nextConvId, nextMemberId, nonComposerVars>>

NextSend ==
  \/ \E t \in Texts : HandleInputChange(t)
  \/ \E f \in Files : HandleFileSelect(f)
  \/ RemoveFile
  \/ HandleSend
  \/ \E ok \in BOOLEAN : UploadDone(ok)
  \/ \E ok \in BOOLEAN : SendMessageInsert(ok)
  \/ \E ok \in BOOLEAN : SendMessageTouch(ok)

\* The rows a step adds to public.messages
InsertedRows == msgRows' \ msgRows

\* C6: the row handleSend inserts.  With a file selected and the text empty
\* or only whitespace when handleSend was called, the row's content and
\* file_name are the file's name and its type is "image" exactly when the
\* file's MIME type begins with image/ (otherwise "file"); with text present
\* the content is the trimmed text.
C6_SendPayload ==
  [][\A ok \in BOOLEAN : \A r \in InsertedRows :
       SendMessageInsert(ok) =>
         /\ (hsFile # NoFile /\ \A i \in 1..Len(hsText) : hsText[i] = " ") =>
               /\ r.content = hsFile.name
               /\ r.file_name = hsFile.name
               /\ r.message_type \in {"image", "file"}
               /\ r.message_type = "image" <=>
                    /\ Len(hsFile.type) >= 2
                    /\ hsFile.type[1] = "image"
                    /\ hsFile.type[2] = "/"
         /\ (\E i \in 1..Len(hsText) : hsText[i] # " ") =>
               /\ r.content # <<>>
               /\ r.content[1] # " " /\ r.content[Len(r.content)] # " "
               /\ \E i, j \in 1..Len(hsText) : r.content = SubSeq(hsText, i, j)
               /\ Len(r.content) =
                    Len(hsText)
                    - Cardinality({i \in 1..Len(hsText) :
                                     \A k \in 1..i : hsText[k] = " "})
                    - Cardinality({i \in 1..Len(hsText) :
                                     \A k \in i..Len(hsText) : hsText[k] = " "})]_vars

\* A file-only image message has been stored.
C6_Witness ==
  \E r \in msgRows :
    /\ r.file_name = <<"p", ".", "png">>
    /\ r.content = r.file_name
    /\ r.message_type = "image"
    /\ r.file_url # Undefined

\* C17: when handleSend ends because the upload failed or because the
\* insert of sendMessage failed, an error toast is shown and the composed
\* text and the selected file are as they were.
C17_SendFailureKeepsComposer ==
  [][((hsPc = "upload" \/ hsPc = "insert") /\ hsPc' = "idle") =>
       /\ sendToast' = "error"
       /\ newMessage' = newMessage
       /\ selectedFile' = selectedFile]_vars

\* C24: sendMessage touches the conversation only after its insert has
\* stored the message; when the insert fails nothing is touched and the
\* error returned is the insert's; when the touch fails the error returned
\* is null, no toast is shown and the inserted message stays.
C24_InsertThenBestEffortTouch ==
  [][/\ convRows' # convRows =>
          /\ hsPc = "touch"
          /\ \E r \in msgRows : r.id = nextMsgId - 1 /\ r.sender_id = "a"
     /\ (hsPc = "insert" /\ hsPc' = "idle") =>
          /\ convRows' = convRows
          /\ msgRows' = msgRows
          /\ smError' = "insert-error"
     /\ (hsPc = "touch" /\ hsPc' = "idle") =>
          /\ smError' = "null"
          /\ sendToast' = sendToast
          /\ msgRows' = msgRows]_vars

\* A message has been stored and its touch has failed: sendMessage has
\* returned no error and the conversation's updated_at is the old one.
C24_Witness ==
  /\ hsPc = "idle"
  /\ smError = "null"
  /\ msgRows # {}
  /\ convClock > 0
  /\ \A c \in convRows : c.updated_at = 0

---------------------------------------------------------------------------
(* Conversation lists: useConversations and NewChatDialog *)

MaxConvs == 1
MaxInvitees == 2

\* The sessions with a mounted useConversations; "a" also creates.
Sessions == {"a", "b"}

Creator == "a"

Profiles == {"a", "b", "c"}

MembersSelectPolicy(uid, m, members) ==
  \E q \in members : q.conversation_id = m.conversation_id /\ q.user_id = uid

\* UNIQUE(conversation_id, user_id) over the rows one statement inserts
MembersUniqueViolation(members, new) ==
  \/ \E i \in 1..Len(new) : \E m \in members :
       m.conversation_id = new[i].conversation_id /\ m.user_id = new[i].user_id
  \/ \E i, j \in 1..Len(new) :
       i # j /\ new[i].conversation_id = new[j].conversation_id
             /\ new[i].user_id = new[j].user_id

\* [...new Set(ids)]: first occurrences, in order
RECURSIVE Dedupe(_)
Dedupe(ids) ==
  IF ids = <<>> THEN <<>>
  ELSE LET rest == Dedupe(SubSeq(ids, 1, Len(ids) - 1))
           last == ids[Len(ids)]
       IN  IF \E i \in 1..Len(rest) : rest[i] = last THEN rest
           ELSE Append(rest, last)

\* createConversation: allMemberIds
AllMemberIds(uid, memberIds) == Dedupe(<<uid>> \o memberIds)

\* createConversation: is_admin
IsAdminAlways(id, uid) == TRUE

IsAdmin(id, uid) == id = uid

\* createConversation: name: isGroup ? name : null
ConversationName(isGroup, name) ==
  IF isGroup /\ name # Undefined THEN name ELSE Null

\* createConversation: members
NewMemberRows(uid, conv, memberIds, firstId) ==
  LET all == AllMemberIds(uid, memberIds)
  IN  [i \in 1..Len(all) |->
         [id |-> firstId + i - 1, conversation_id |-> conv, user_id |-> all[i],
          is_admin |-> IsAdmin(all[i], uid)]]

\* order("updated_at", { ascending: false }): the rows, newest first
RECURSIVE SortByUpdatedDesc(_)
SortByUpdatedDesc(S) ==
  IF S = {} THEN <<>>
  ELSE LET m == CHOOSE r \in S : \A q \in S :
                  \/ r.updated_at > q.updated_at
                  \/ r.updated_at = q.updated_at /\ r.id <= q.id
       IN  <<m>> \o SortByUpdatedDesc(S \ {m})

\* One entry of the local list: ...conv, with the members the session may
\* select
WithDetails(uid, conv, members) ==
  [id |-> conv.id, name |-> conv.name, is_group |-> conv.is_group,
   created_by |-> conv.created_by, updated_at |-> conv.updated_at,
   members |-> {m.user_id : m \in {q \in members :
                                      /\ q.conversation_id = conv.id
                                      /\ MembersSelectPolicy(uid, q, members)}}]

\* fetchConversations: conversationsWithDetails
ConversationsWithDetailsReversed(uid, convData, members) ==
  [i \in 1..Len(convData) |->
     WithDetails(uid, convData[Len(convData) + 1 - i], members)]

ConversationsWithDetails(uid, convData, members) ==
  [i \in 1..Len(convData) |-> WithDetails(uid, convData[i], members)]

NoArgs == [memberIds |-> <<>>, isGroup |-> FALSE, name |-> Undefined]

NewFetch(awaited) ==
  [pc |-> "members", ids |-> {}, data |-> <<>>, awaited |-> awaited]

\* A session starts a fetchConversations run.
StartFetch(fs, u, awaited) == [fs EXCEPT ![u] = Append(@, NewFetch(awaited))]

RemoveAt(s, i) == SubSeq(s, 1, i - 1) \o SubSeq(s, i + 1, Len(s))

InitConvList ==
  /\ conversations = [u \in Sessions |-> <<>>]
  /\ fetches = [u \in Sessions |-> <<NewFetch(FALSE)>>]
  /\ evPending = [u \in Sessions |-> 0]
  /\ crPc = "idle"
  /\ crArgs = NoArgs
  /\ crConv = 0
  /\ crResult = [status |-> "none", conv |-> 0]

\* createConversation has returned
CreateReturns(status, conv) ==
  /\ crPc' = "idle"
  /\ crArgs' = NoArgs
  /\ crConv' = 0
  /\ crResult' = [status |-> status, conv |-> conv]

\* createConversation up to the answer to the conversations insert
CreateConversation(memberIds, isGroup, name, ok) ==
  /\ crPc = "idle"
  /\ nextConvId <= OpenConv + MaxConvs
  /\ LET row == [id |-> nextConvId, name |-> ConversationName(isGroup, name),
                 is_group |-> isGroup, created_by |-> Creator,
                 updated_at |-> convClock + 1]
     IN  IF ok /\ ConversationsInsertPolicy(Creator, row)
           THEN /\ convRows' = convRows \cup {row}
                /\ nextConvId' = nextConvId + 1
                /\ convClock' = convClock + 1
                /\ wal' = Append(wal, Change("conversations", "INSERT", row.id, row.id))
                /\ crPc' = "members"
                /\ crArgs' = [memberIds |-> memberIds, isGroup |-> isGroup,
                              name |-> name]
                /\ crConv' = row.id
                /\ crResult' = [status |-> "pending", conv |-> 0]
           ELSE /\ CreateReturns("error", 0)
                /\ UNCHANGED <<convRows, nextConvId, convClock, wal>>
  /\ UNCHANGED <<memberRows, nextMemberId, conversations, fetches, evPending>>
  /\ UNCHANGED nonConvListVars

\* The selections NewChatDialog can hold: toggleUser keeps them distinct and
\* the user list leaves the signed-in user out.
Selections ==
  {s \in UNION {[1..n -> Profiles \ {Creator}] : n \in 0..MaxInvitees} :
     \A i, j \in 1..Len(s) : i # j => s[i] # s[j]}

GroupNames == {<<>>, <<" ">>, <<"g">>}

NouveauGroupe == <<"Nouveau groupe">>

\* NewChatDialog.handleCreate
HandleCreate(selectedUsers, isGroup, groupName, ok) ==
  /\ selectedUsers # <<>>
  /\ ~(isGroup /\ Trim(groupName) = <<>>)
  /\ LET shouldBeGroup == isGroup \/ Len(selectedUsers) > 1
     IN  CreateConversation(selectedUsers, shouldBeGroup,
                            IF shouldBeGroup
                              THEN OrElse(Trim(groupName), NouveauGroupe)
                              ELSE Undefined,
                            ok)

\* insert(members): one statement, which writes all its rows or none
MembersAfterInsertPartial(members, new, accepted) ==
  IF accepted THEN members \cup SeqRange(new) ELSE members \cup {new[1]}

MembersAfterInsert(members, new, accepted) ==
  IF accepted THEN members \cup SeqRange(new) ELSE members

\* createConversation: the answer to the conversation_members insert
CreateInsertMembers(ok) ==
  /\ crPc = "members"
  /\ LET new == NewMemberRows(Creator, crConv, crArgs.memberIds, nextMemberId)
     IN  IF /\ ok
            /\ \A i \in 1..Len(new) : MembersInsertPolicy(Creator, new[i])
            /\ ~MembersUniqueViolation(memberRows, new)
           THEN /\ memberRows' = MembersAfterInsert(memberRows, new, TRUE)
                /\ nextMemberId' = nextMemberId + Len(new)
                /\ crPc' = "fetch"
                /\ fetches' = StartFetch(fetches, Creator, TRUE)
                /\ UNCHANGED <<crArgs, crConv, crResult>>
           ELSE /\ CreateReturns("error", 0)
                /\ memberRows' = MembersAfterInsert(memberRows, new, FALSE)
                /\ UNCHANGED <<nextMemberId, fetches>>
  /\ UNCHANGED <<convRows, nextConvId, convClock, wal, conversations, evPending>>
  /\ UNCHANGED nonConvListVars

\* fetchConversations: the answer to the first query (own memberships)
FetchMemberIds(u, i) ==
  /\ i \in 1..Len(fetches[u])
  /\ fetches[u][i].pc = "members"
  /\ LET f == fetches[u][i]
         ids == {m.conversation_id :
                   m \in {q \in memberRows :
                            q.user_id = u /\ MembersSelectPolicy(u, q, memberRows)}}
     IN  IF ids = {}
           THEN /\ conversations' = [conversations EXCEPT ![u] = <<>>]
                /\ fetches' = [fetches EXCEPT ![u] = RemoveAt(@, i)]
                /\ IF f.awaited THEN CreateReturns("ok", crConv)
                                ELSE UNCHANGED <<crPc, crArgs, crConv, crResult>>
           ELSE /\ fetches' = [fetches EXCEPT ![u][i] =
                                 [f EXCEPT !.pc = "convs", !.ids = ids]]
                /\ UNCHANGED <<conversations, crPc, crArgs, crConv, crResult>>
  /\ UNCHANGED <<convTables, evPending>>
  /\ UNCHANGED nonConvListVars

\* fetchConversations: the answer to the second query (the conversations)
FetchConvData(u, i) ==
  /\ i \in 1..Len(fetches[u])
  /\ fetches[u][i].pc = "convs"
  /\ LET f == fetches[u][i]
         rows == {c \in convRows :
                    c.id \in f.ids /\ ConversationsSelectPolicy(u, c, memberRows)}
     IN  fetches' = [fetches EXCEPT ![u][i] =
                       [f EXCEPT !.pc = "details", !.data = SortByUpdatedDesc(rows)]]
  /\ UNCHANGED <<convTables, conversations, evPending, crPc, crArgs, crConv, crResult>>
  /\ UNCHANGED nonConvListVars

\* fetchConversations: members and last messages are in, setConversations
FetchDetails(u, i) ==
  /\ i \in 1..Len(fetches[u])
  /\ fetches[u][i].pc = "details"
  /\ conversations' = [conversations EXCEPT ![u] =
       ConversationsWithDetails(u, fetches[u][i].data, memberRows)]
  /\ fetches' = [fetches EXCEPT ![u] = RemoveAt(@, i)]
  /\ IF fetches[u][i].awaited
       THEN CreateReturns("ok", crConv)
       ELSE UNCHANGED <<crPc, crArgs, crConv, crResult>>
  /\ UNCHANGED <<convTables, evPending>>
  /\ UNCHANGED nonConvListVars

\* Whether the realtime service hands a change to a subscriber: the
\* subscriber must be allowed to select the changed row.
ChangeVisible(uid, ch) ==
  IF ch.table = "conversations"
    THEN \E c \in convRows : c.id = ch.id /\ ConversationsSelectPolicy(uid, c, memberRows)
    ELSE \E m \in memberRows : m.conversation_id = ch.conv /\ m.user_id = uid

\* The realtime service processes the oldest change: every
\* conversations-changes channel listens to messages and conversations, the
\* messages channel of the open conversation to the inserts of its messages.
RealtimePoll ==
  /\ wal # <<>>
  /\ wal' = Tail(wal)
  /\ evPending' = [u \in Sessions |->
                     evPending[u] + IF ChangeVisible(u, Head(wal)) THEN 1 ELSE 0]
  /\ msgEvents' = IF /\ Head(wal).table = "messages"
                     /\ Head(wal).op = "INSERT"
                     /\ Head(wal).conv = OpenConv
                     /\ ChangeVisible("a", Head(wal))
                    THEN Append(msgEvents, Head(wal).id)
                    ELSE msgEvents
  /\ UNCHANGED <<convRows, memberRows, nextConvId, nextMemberId, convClock>>
  /\ UNCHANGED <<conversations, fetches, crPc, crArgs, crConv, crResult>>
  /\ UNCHANGED <<messages, mLoading, mFetches, mHandlers, rSent, rPc, mToast>>
  /\ UNCHANGED <<contactVars, storyVars, composerVars, typingVars, extVars>>

\* useConversations: the postgres_changes callback
ConversationsChanged(u) ==
  /\ evPending[u] > 0
  /\ evPending' = [evPending EXCEPT ![u] = @ - 1]
  /\ fetches' = StartFetch(fetches, u, FALSE)
  /\ UNCHANGED <<convTables, conversations, crPc, crArgs, crConv, crResult>>
  /\ UNCHANGED nonConvListVars

HookMemberIds == UNION {[1..n -> Profiles] : n \in 0..MaxInvitees}

NextConvList ==
  \/ \E ids \in HookMemberIds, g \in BOOLEAN, n \in {Undefined, <<"g">>},
        ok \in BOOLEAN : CreateConversation(ids, g, n, ok)
  \/ \E sel \in Selections, g \in BOOLEAN, n \in GroupNames, ok \in BOOLEAN :
        HandleCreate(sel, g, n, ok)
  \/ \E ok \in BOOLEAN : CreateInsertMembers(ok)
  \/ \E u \in Sessions : \E i \in 1..Len(fetches[u]) : FetchMemberIds(u, i)
  \/ \E u \in Sessions : \E i \in 1..Len(fetches[u]) : FetchConvData(u, i)
  \/ \E u \in Sessions : \E i \in 1..Len(fetches[u]) : FetchDetails(u, i)
  \/ RealtimePoll
  \/ \E u \in Sessions : ConversationsChanged(u)

\* The membership rows of one conversation
MembersOf(members, c) == {m \in members : m.conversation_id = c}

\* C7: when createConversation returns successfully, its conversation has
\* exactly one conversations row and exactly one membership row for each
\* distinct user among the creator and memberIds, no other membership row,
\* and only the creator's row has the admin flag; called for a one-to-one
\* conversation with b, that is two membership rows and a null name.  No
\* step of a running createConversation other than its first insert adds a
\* conversations row.
C7_CreateConversationRows ==
  [][/\ (crPc = "idle" /\ crPc' = "members") =>
          Cardinality(convRows') = Cardinality(convRows) + 1
     /\ (crPc # "idle") => convRows' = convRows
     /\ (crPc = "fetch" /\ crPc' = "idle") =>
          LET c == crConv
              expected == {Creator} \cup SeqRange(crArgs.memberIds)
              rows == MembersOf(memberRows', c)
          IN  /\ crResult' = [status |-> "ok", conv |-> c]
              /\ Cardinality({r \in convRows' : r.id = c}) = 1
              /\ \A x \in expected :
                   Cardinality({m \in rows : m.user_id = x}) = 1
              /\ \A m \in rows :
                   m.user_id \in expected /\ (m.is_admin <=> m.user_id = Creator)
              /\ (crArgs.memberIds = <<"b">> /\ ~crArgs.isGroup) =>
                   /\ Cardinality(rows) = 2
                   /\ \A r \in convRows' : r.id = c => r.name = Null]_vars

\* A one-to-one creation with b has returned successfully.
C7_Witness ==
  /\ crResult = [status |-> "ok", conv |-> OpenConv + 1]
  /\ {m.user_id : m \in MembersOf(memberRows, OpenConv + 1)} = {"a", "b"}
  /\ \E r \in convRows : r.id = OpenConv + 1 /\ ~r.is_group /\ r.name = Null

\* A conversation that is the one-to-one conversation of a and b
IsOneToOne(c) ==
  /\ \E r \in convRows : r.id = c /\ ~r.is_group
  /\ {m.user_id : m \in MembersOf(memberRows, c)} = {"a", "b"}

FirstIs(list, c) == list # <<>> /\ Head(list).id = c

\* C8: once a's createConversation of a one-to-one conversation with b has
\* returned successfully, the conversation comes to be first in a's list and
\* first in b's list, b's session being mounted and subscribed all along and
\* nobody writing anything further.
C8_NewConversationInBothLists ==
  \A c \in (OpenConv + 1)..(OpenConv + MaxConvs) :
    (crResult = [status |-> "ok", conv |-> c] /\ IsOneToOne(c))
      ~> (FirstIs(conversations["a"], c) /\ FirstIs(conversations["b"], c))

\* The creation has returned, every notification has been handled, no fetch
\* is running, and b's list does not hold the new conversation.
C8_Witness ==
  /\ crResult = [status |-> "ok", conv |-> OpenConv + 1]
  /\ IsOneToOne(OpenConv + 1)
  /\ wal = <<>>
  /\ \A u \in Sessions : evPending[u] = 0 /\ fetches[u] = <<>>
  /\ FirstIs(conversations["a"], OpenConv + 1)
  /\ Len(conversations["b"]) = 1
  /\ conversations["b"][1].id = OpenConv

\* What a fetchConversations run of uid started now, alone, would store
GatewayListOf(uid) ==
  LET ids == {m.conversation_id :
                m \in {q \in memberRows :
                         q.user_id = uid /\ MembersSelectPolicy(uid, q, memberRows)}}
      rows == {c \in convRows :
                 c.id \in ids /\ ConversationsSelectPolicy(uid, c, memberRows)}
  IN  ConversationsWithDetails(uid, SortByUpdatedDesc(rows), memberRows)

\* C25: once every fetchConversations run of the creating session has
\* completed, with no change and no notification left to handle and no
\* creation running, that session's list is what the gateway holds for its
\* user.
C25_OverlappingFetchesEndCurrent ==
  (/\ fetches[Creator] = <<>>
   /\ evPending[Creator] = 0
   /\ wal = <<>>
   /\ crPc = "idle")
    => conversations[Creator] = GatewayListOf(Creator)

\* The creation has succeeded and everything has completed, and a's list
\* holds only the conversation that existed before: the run started at
\* mount has stored its result last.
C25_Witness ==
  /\ crResult = [status |-> "ok", conv |-> OpenConv + 1]
  /\ fetches[Creator] = <<>>
  /\ evPending[Creator] = 0
  /\ wal = <<>>
  /\ Len(GatewayListOf(Creator)) = 2
  /\ Len(conversations[Creator]) = 1
  /\ conversations[Creator][1].id = OpenConv

\* Conversations are created through NewChatDialog only.
NextNewChat ==
  \/ \E sel \in Selections, g \in BOOLEAN, n \in GroupNames, ok \in BOOLEAN :
        HandleCreate(sel, g, n, ok)
  \/ \E ok \in BOOLEAN : CreateInsertMembers(ok)
  \/ \E u \in Sessions : \E i \in 1..Len(fetches[u]) : FetchMemberIds(u, i)
  \/ \E u \in Sessions : \E i \in 1..Len(fetches[u]) : FetchConvData(u, i)
  \/ \E u \in Sessions : \E i \in 1..Len(fetches[u]) : FetchDetails(u, i)
  \/ RealtimePoll
  \/ \E u \in Sessions : ConversationsChanged(u)

\* C18: every conversation in the store that is not a group has exactly two
\* membership rows and a null name.
C18_OneToOneHasTwoMembers ==
  \A c \in convRows :
    ~c.is_group => (Cardinality(MembersOf(memberRows, c.id)) = 2 /\ c.name = Null)

\* A creation through the dialog has failed at the membership insert:
\* nothing is in flight any more and the store holds a one-to-one
\* conversation without members.
C18_Witness ==
  /\ crPc = "idle"
  /\ crResult.status = "error"
  /\ wal = <<>>
  /\ \A u \in Sessions : evPending[u] = 0 /\ fetches[u] = <<>>
  /\ \E c \in convRows :
       ~c.is_group /\ c.name = Null /\ MembersOf(memberRows, c.id) = {}

\* C12: when the conversations insert of createConversation has succeeded
\* and the conversation_members insert fails, the call returns an error and
\* no data, the conversation row stays in the store, the conversation has no
\* membership row, and no run of fetchConversations is started: the local
\* lists and the runs in flight are as before.
C12_MembersFailureNoRollback ==
  [][(crPc = "members" /\ crPc' = "idle") =>
       /\ crResult' = [status |-> "error", conv |-> 0]
       /\ convRows' = convRows
       /\ \E r \in convRows' : r.id = crConv
       /\ MembersOf(memberRows', crConv) = {}
       /\ memberRows' = memberRows
       /\ fetches' = fetches
       /\ conversations' = conversations]_vars

\* createConversation has returned an error and its conversation is in the
\* store without any member.
C12_Witness ==
  /\ crPc = "idle"
  /\ crResult = [status |-> "error", conv |-> 0]
  /\ \E r \in convRows : r.id = OpenConv + 1
  /\ MembersOf(memberRows, OpenConv + 1) = {}

\* C11: a session's local conversation list is in descending order of the
\* updated_at its entries hold: the entries are in the order the
\* conversations query returned them.
C11_ListSortedByUpdatedDesc ==
  \A u \in Sessions : \A i, j \in 1..Len(conversations[u]) :
    i < j => conversations[u][i].updated_at >= conversations[u][j].updated_at

\* a's list holds the two conversations, the older one first because it
\* has been touched since the newer one was created.
C11_Witness ==
  /\ Len(conversations["a"]) = 2
  /\ conversations["a"][1].id = OpenConv
  /\ conversations["a"][1].updated_at > conversations["a"][2].updated_at

---------------------------------------------------------------------------
(* Typing indicator: useTypingIndicator over the presence channel of the
   open conversation *)

MaxActs == 2
MaxInputLen == 2

\* The sessions that have the conversation open; "a" is the one who types.
TypingMembers == {"a", "b"}

Typists == {"a"}

Absent == "absent"

\* A track() call on its way: the is_typing it publishes, and whether it is
\* startTyping's (which goes on to arm the timer once the call is answered)
Track(isTyping, fromStart) == [is_typing |-> isTyping, start |-> fromStart]

\* The presence sync handler: the others whose presence says is_typing
TypingUsersOfAllPresent(uid, state) ==
  {p \in TypingMembers : p # uid /\ state[p] # Absent}

TypingUsersOfWithSelf(uid, state) ==
  {p \in TypingMembers : state[p] = "typing"}

TypingUsersOf(uid, state) ==
  {p \in TypingMembers : p # uid /\ state[p] = "typing"}

PresenceOf(isTyping) == IF isTyping THEN "typing" ELSE "idle"

InitTyping ==
  /\ chan = [u \in TypingMembers |-> "joining"]
  /\ outbox = [u \in TypingMembers |-> <<>>]
  /\ presence = [u \in TypingMembers |-> Absent]
  /\ contPending = [u \in TypingMembers |-> 0]
  /\ timer = [u \in TypingMembers |-> FALSE]
  /\ inbox = [u \in TypingMembers |-> <<>>]
  /\ typingUsers = [u \in TypingMembers |-> {}]
  /\ tInput = [u \in TypingMembers |-> 0]
  /\ tActs = [u \in TypingMembers |-> 0]
  /\ tLast = [u \in TypingMembers |-> "none"]
  /\ strayTimers = [u \in TypingMembers |-> 0]

\* startTyping up to its await: the track call is handed to the channel
\* (the channel keeps it until it has joined)
StartTypingCall(u) == outbox' = [outbox EXCEPT ![u] = Append(@, Track(TRUE, TRUE))]

\* stopTyping: clearTimeout, then the track call
StopTypingCall(u) ==
  /\ timer' = [timer EXCEPT ![u] = FALSE]
  /\ outbox' = [outbox EXCEPT ![u] = Append(@, Track(FALSE, FALSE))]

\* ChatView.handleInputChange, the typing half: the input now holds n
\* characters
TypingInputChange(u, n) ==
  /\ u \in Typists
  /\ chan[u] # "closed"
  /\ tActs[u] < MaxActs
  /\ n \in 0..MaxInputLen
  /\ n = tInput[u] + 1 \/ n = tInput[u] - 1
  /\ tInput' = [tInput EXCEPT ![u] = n]
  /\ tActs' = [tActs EXCEPT ![u] = @ + 1]
  /\ tLast' = [tLast EXCEPT ![u] = IF tInput[u] = 0 THEN "first" ELSE "edit"]
  /\ IF n > 0
       THEN StartTypingCall(u) /\ UNCHANGED timer
       ELSE StopTypingCall(u)
  /\ UNCHANGED <<chan, presence, contPending, inbox, typingUsers>>
  /\ UNCHANGED strayTimers
  /\ UNCHANGED nonTypingVars

\* ChatView.handleSend, the typing half: stopTyping, and the input is
\* emptied
TypingSend(u) ==
  /\ u \in Typists
  /\ chan[u] # "closed"
  /\ tActs[u] < MaxActs
  /\ tInput[u] > 0
  /\ StopTypingCall(u)
  /\ tInput' = [tInput EXCEPT ![u] = 0]
  /\ tActs' = [tActs EXCEPT ![u] = @ + 1]
  /\ tLast' = [tLast EXCEPT ![u] = "send"]
  /\ UNCHANGED <<chan, presence, contPending, inbox, typingUsers>>
  /\ UNCHANGED strayTimers
  /\ UNCHANGED nonTypingVars

\* The channel has joined: it gets the presence state, and the subscribe
\* callback tracks is_typing false
Subscribed(u) ==
  /\ chan[u] = "joining"
  /\ chan' = [chan EXCEPT ![u] = "joined"]
  /\ outbox' = [outbox EXCEPT ![u] = Append(@, Track(FALSE, FALSE))]
  /\ inbox' = [inbox EXCEPT ![u] = Append(@, presence)]
  /\ UNCHANGED <<presence, contPending, timer, typingUsers, tInput, tActs, tLast>>
  /\ UNCHANGED strayTimers
  /\ UNCHANGED nonTypingVars

\* The presence service applies the oldest track call of a joined channel,
\* answers it, and sends the new state to every joined channel
PresenceApply(u) ==
  /\ chan[u] = "joined"
  /\ outbox[u] # <<>>
  /\ outbox' = [outbox EXCEPT ![u] = Tail(@)]
  /\ presence' = [presence EXCEPT ![u] = PresenceOf(Head(outbox[u]).is_typing)]
  /\ contPending' = [contPending EXCEPT ![u] =
                       @ + IF Head(outbox[u]).start THEN 1 ELSE 0]
  /\ inbox' = [v \in TypingMembers |->
                 IF chan[v] = "joined" THEN Append(inbox[v], presence') ELSE inbox[v]]
  /\ UNCHANGED <<chan, timer, typingUsers, tInput, tActs, tLast>>
  /\ UNCHANGED strayTimers
  /\ UNCHANGED nonTypingVars

\* startTyping after its await, the timers left pending that the ref no
\* longer holds: clearTimeout(typingTimeoutRef.current) cancels the one it
\* holds before the new one replaces it
StrayAfterArmNoClear(refPending, stray) ==
  stray + IF refPending THEN 1 ELSE 0

StrayAfterArm(refPending, stray) == stray

\* startTyping after its await: clearTimeout, setTimeout(stopTyping, 3000)
StartTypingContinues(u) ==
  /\ contPending[u] > 0
  /\ contPending' = [contPending EXCEPT ![u] = @ - 1]
  /\ timer' = [timer EXCEPT ![u] = TRUE]
  /\ strayTimers' = [strayTimers EXCEPT ![u] = StrayAfterArm(timer[u], @)]
  /\ UNCHANGED <<chan, outbox, presence, inbox, typingUsers, tInput, tActs, tLast>>
  /\ UNCHANGED nonTypingVars

\* The 3 s timeout fires: stopTyping, which returns at once when
\* channelRef.current is null
TimerFires(u) ==
  /\ \E which \in {"ref", "stray"} :
       /\ IF which = "ref" THEN timer[u] ELSE strayTimers[u] > 0
       /\ strayTimers' = [strayTimers EXCEPT ![u] =
                            IF which = "stray" THEN @ - 1 ELSE @]
       /\ IF chan[u] = "closed"
            THEN /\ timer' = [timer EXCEPT ![u] = IF which = "ref" THEN FALSE ELSE @]
                 /\ UNCHANGED outbox
            ELSE StopTypingCall(u)
  /\ UNCHANGED <<chan, presence, contPending, inbox, typingUsers, tInput, tActs, tLast>>
  /\ UNCHANGED nonTypingVars

\* The presence sync handler
PresenceSync(u) ==
  /\ inbox[u] # <<>>
  /\ typingUsers' = [typingUsers EXCEPT ![u] = TypingUsersOf(u, Head(inbox[u]))]
  /\ inbox' = [inbox EXCEPT ![u] = Tail(@)]
  /\ UNCHANGED <<chan, outbox, presence, contPending, timer, tInput, tActs, tLast>>
  /\ UNCHANGED strayTimers
  /\ UNCHANGED nonTypingVars

\* How many of the track calls are startTyping's
RECURSIVE StartCalls(_)
StartCalls(calls) ==
  IF calls = <<>> THEN 0
  ELSE (IF Head(calls).start THEN 1 ELSE 0) + StartCalls(Tail(calls))

\* The effect's cleanup when the ChatView unmounts: removeChannel,
\* channelRef.current = null, clearTimeout.  The service drops the user's
\* presence and tells the others; the track calls not yet applied are never
\* applied, but their promises are settled (answer or time-out), so that a
\* startTyping waiting on one of them goes on.
Teardown(u) ==
  /\ chan[u] # "closed"
  /\ chan' = [chan EXCEPT ![u] = "closed"]
  /\ timer' = [timer EXCEPT ![u] = FALSE]
  /\ contPending' = [contPending EXCEPT ![u] = @ + StartCalls(outbox[u])]
  /\ outbox' = [outbox EXCEPT ![u] = <<>>]
  /\ presence' = [presence EXCEPT ![u] = Absent]
  /\ inbox' = [v \in TypingMembers |->
                 IF v = u THEN <<>>
                 ELSE IF chan[v] = "joined" /\ presence' # presence
                        THEN Append(inbox[v], presence')
                        ELSE inbox[v]]
  /\ typingUsers' = [typingUsers EXCEPT ![u] = {}]
  /\ UNCHANGED <<tInput, tActs, tLast>>
  /\ UNCHANGED strayTimers
  /\ UNCHANGED nonTypingVars

NextTyping ==
  \/ \E u \in Typists : \E n \in 0..MaxInputLen : TypingInputChange(u, n)
  \/ \E u \in Typists : TypingSend(u)
  \/ \E u \in TypingMembers : Subscribed(u)
  \/ \E u \in TypingMembers : PresenceApply(u)
  \/ \E u \in TypingMembers : StartTypingContinues(u)
  \/ \E u \in TypingMembers : TimerFires(u)
  \/ \E u \in TypingMembers : PresenceSync(u)

\* C9: (1) once a has typed a first character into the empty input and its
\* tracker has handed over the is_typing true that follows, b's session, if
\* it is subscribed by then, comes to list a as typing; (2) after any
\* input change that leaves text in the input, unless a changes the input
\* again or sends, a's tracker comes to publish is_typing false and b's
\* session comes to a list without a.
C9_TypingSeenThenCleared ==
  \A k \in 1..MaxActs :
    /\ (/\ tActs["a"] = k /\ tLast["a"] = "first"
        /\ outbox["a"] # <<>> /\ outbox["a"][Len(outbox["a"])].is_typing
        /\ chan["b"] = "joined")
         ~> ("a" \in typingUsers["b"])
    /\ (tActs["a"] = k /\ tInput["a"] > 0)
         ~> \/ tActs["a"] # k
            \/ /\ presence["a"] = "idle"
               /\ outbox["a"] = <<>>
               /\ ~timer["a"]
               /\ inbox["b"] = <<>>
               /\ "a" \notin typingUsers["b"]

\* a has typed one character and nothing since; the timeout has published
\* false, and b's session, which has shown a as typing, has the snapshot
\* without a still to handle.
C9_Witness ==
  /\ tActs["a"] = 1
  /\ tInput["a"] = 1
  /\ presence["a"] = "idle"
  /\ outbox["a"] = <<>>
  /\ contPending["a"] = 0
  /\ ~timer["a"]
  /\ "a" \in typingUsers["b"]
  /\ Len(inbox["b"]) = 1

\* C22: the sync handler leaves in typingUsers exactly the users other than
\* the session's own whose record in the snapshot it handles says
\* is_typing true; a session never lists its own user.
C22_TypingUsersAreOthersTyping ==
  [][\A u \in TypingMembers :
       /\ PresenceSync(u) =>
            \A p \in TypingMembers :
              p \in typingUsers'[u] <=> (p # u /\ Head(inbox[u])[p] = "typing")
       /\ u \notin typingUsers'[u]]_vars

\* Both sessions have handled the snapshot in which a is typing: b lists a,
\* a lists nobody.
C22_Witness ==
  /\ presence["a"] = "typing"
  /\ chan["a"] = "joined" /\ chan["b"] = "joined"
  /\ inbox["a"] = <<>> /\ inbox["b"] = <<>>
  /\ typingUsers["b"] = {"a"}
  /\ typingUsers["a"] = {}

\* Both sessions have subscribed, and the is_typing false of each subscribe
\* callback has been published and handled, before a types.
InitTypingJoined ==
  /\ chan = [u \in TypingMembers |-> "joined"]
  /\ outbox = [u \in TypingMembers |-> <<>>]
  /\ presence = [u \in TypingMembers |-> "idle"]
  /\ contPending = [u \in TypingMembers |-> 0]
  /\ timer = [u \in TypingMembers |-> FALSE]
  /\ inbox = [u \in TypingMembers |-> <<>>]
  /\ typingUsers = [u \in TypingMembers |-> {}]
  /\ tInput = [u \in TypingMembers |-> 0]
  /\ tActs = [u \in TypingMembers |-> 0]
  /\ tLast = [u \in TypingMembers |-> "none"]
  /\ strayTimers = [u \in TypingMembers |-> 0]

NextTypingJoined ==
  \/ \E u \in Typists : \E n \in 0..MaxInputLen : TypingInputChange(u, n)
  \/ \E u \in Typists : TypingSend(u)
  \/ \E u \in TypingMembers : PresenceApply(u)
  \/ \E u \in TypingMembers : StartTypingContinues(u)
  \/ \E u \in TypingMembers : TimerFires(u)
  \/ \E u \in TypingMembers : PresenceSync(u)

\* C23: while a keeps typing into a non-empty input, once the publish of
\* the last keystroke has completed and the idle timer it armed is still
\* pending (less than 3 seconds have passed since), the state a's tracker
\* has published last is is_typing true.
C23_TypingPublishedWhileTyping ==
  (/\ tInput["a"] > 0
   /\ tLast["a"] \in {"first", "edit"}
   /\ outbox["a"] = <<>>
   /\ contPending["a"] = 0
   /\ timer["a"])
    => presence["a"] = "typing"

\* a has typed two characters; the timer of the first one fired while the
\* publish of the second was awaited, so that the last state published is
\* is_typing false while the timer of the second keystroke is pending.
C23_Witness ==
  /\ tActs["a"] = 2
  /\ tInput["a"] = 2
  /\ outbox["a"] = <<>>
  /\ contPending["a"] = 0
  /\ timer["a"]
  /\ presence["a"] = "idle"
  /\ typingUsers["b"] = {}
  /\ inbox["b"] = <<>>

\* C30: a tracker has at most one idle timer pending: the one
\* typingTimeoutRef holds, if any; no timer armed earlier is left pending
\* beside it.
C30_AtMostOneTimer ==
  \A u \in TypingMembers :
    (IF timer[u] THEN 1 ELSE 0) + strayTimers[u] <= 1

\* A second startTyping has armed its timer while the timer of the first
\* was pending, with a stopTyping's publish still on its way.
C30_Witness ==
  /\ tActs["a"] = 2
  /\ tInput["a"] = 2
  /\ timer["a"]
  /\ contPending["a"] = 0
  /\ presence["a"] = "typing"
  /\ outbox["a"] = <<>>
  /\ strayTimers["a"] = 0

NextTypingTeardown ==
  \/ NextTyping
  \/ \E u \in TypingMembers : Teardown(u)

\* C15: once a session's typing tracker has been torn down, its channel
\* has been left (the service holds no presence of the user) and no idle
\* timer is pending in it: none survives the teardown and none is armed
\* after it.
C15_NoTimerAfterTeardown ==
  \A u \in TypingMembers :
    chan[u] = "closed" => (presence[u] = Absent /\ ~timer[u])

\* a's tracker has been torn down and an idle timer is pending in it.
C15_Witness ==
  /\ chan["a"] = "closed"
  /\ presence["a"] = Absent
  /\ outbox["a"] = <<>>
  /\ contPending["a"] = 0
  /\ timer["a"]

---------------------------------------------------------------------------
(* Message list: useMessages of the ChatView of "a" on the open
   conversation, handleDeleteMessage, and the other member's sends *)

MaxRemote == 1
MaxFetches == 2

MessagesSelectPolicy(uid, r, members) ==
  \E m \in members : m.conversation_id = r.conversation_id /\ m.user_id = uid

MessagesDeletePolicy(uid, r) == r.sender_id = uid

\* order("created_at", { ascending: true }), as the list of ids
RECURSIVE SortByCreatedAsc(_)
SortByCreatedAsc(S) ==
  IF S = {} THEN <<>>
  ELSE LET m == CHOOSE r \in S : \A q \in S : r.created_at <= q.created_at
       IN  <<m.id>> \o SortByCreatedAsc(S \ {m})

\* fetchMessages: what the query returns to uid
MessagesOfConversation(uid, rows, members, conv) ==
  SortByCreatedAsc({r \in rows : r.conversation_id = conv
                                   /\ MessagesSelectPolicy(uid, r, members)})

InitMsgList ==
  /\ messages = <<>>
  /\ mLoading = TRUE
  /\ mFetches = <<[pc |-> "sent", ok |-> FALSE, data |-> <<>>]>>
  /\ msgEvents = <<>>
  /\ mHandlers = <<>>
  /\ rSent = 0
  /\ rPc = "idle"
  /\ mToast = "none"

\* fetchMessages: the gateway runs the query (or fails)
FetchMessagesQuery(i, ok) ==
  /\ i \in 1..Len(mFetches)
  /\ mFetches[i].pc = "sent"
  /\ mFetches' = [mFetches EXCEPT ![i] =
       [pc |-> "answered", ok |-> ok,
        data |-> IF ok THEN MessagesOfConversation("a", msgRows, memberRows, OpenConv)
                 ELSE <<>>]]
  /\ UNCHANGED <<messages, mLoading, msgEvents, mHandlers, rSent, rPc, mToast>>
  /\ UNCHANGED nonMsgListVars

\* fetchMessages after its await: if (data) setMessages(data); setLoading(false)
FetchMessagesDone(i) ==
  /\ i \in 1..Len(mFetches)
  /\ mFetches[i].pc = "answered"
  /\ messages' = IF mFetches[i].ok THEN mFetches[i].data ELSE messages
  /\ mLoading' = FALSE
  /\ mFetches' = RemoveAt(mFetches, i)
  /\ UNCHANGED <<msgEvents, mHandlers, rSent, rPc, mToast>>
  /\ UNCHANGED nonMsgListVars

\* The INSERT callback of the messages channel up to its await
MessageInserted ==
  /\ msgEvents # <<>>
  /\ msgEvents' = Tail(msgEvents)
  /\ mHandlers' = Append(mHandlers, [id |-> Head(msgEvents), pc |-> "sent",
                                     found |-> FALSE])
  /\ UNCHANGED <<messages, mLoading, mFetches, rSent, rPc, mToast>>
  /\ UNCHANGED nonMsgListVars

\* The callback's query of the single row
MessageRowQuery(i) ==
  /\ i \in 1..Len(mHandlers)
  /\ mHandlers[i].pc = "sent"
  /\ mHandlers' = [mHandlers EXCEPT ![i] =
       [@ EXCEPT !.pc = "answered",
                 !.found = \E r \in msgRows :
                             /\ r.id = mHandlers[i].id
                             /\ MessagesSelectPolicy("a", r, memberRows)]]
  /\ UNCHANGED <<messages, mLoading, mFetches, msgEvents, rSent, rPc, mToast>>
  /\ UNCHANGED nonMsgListVars

\* The message the callback puts into the list
Appended(prev, id) == Append(prev, id)

\* The callback after its await: if (data) setMessages(prev => [...prev, data])
MessageRowDone(i) ==
  /\ i \in 1..Len(mHandlers)
  /\ mHandlers[i].pc = "answered"
  /\ messages' = IF mHandlers[i].found THEN Appended(messages, mHandlers[i].id)
                 ELSE messages
  /\ mHandlers' = RemoveAt(mHandlers, i)
  /\ UNCHANGED <<mLoading, mFetches, msgEvents, rSent, rPc, mToast>>
  /\ UNCHANGED nonMsgListVars

\* ChatView.handleDeleteMessage on one of the user's own bubbles
HandleDeleteMessage(id, ok) ==
  /\ \E i \in 1..Len(messages) : messages[i] = id
  /\ \A r \in msgRows : r.id = id => r.sender_id = "a"
  /\ Len(mFetches) < MaxFetches
  /\ IF ok
       THEN /\ msgRows' = {r \in msgRows : ~(r.id = id /\ MessagesDeletePolicy("a", r))}
            /\ wal' = IF msgRows' # msgRows
                        THEN Append(wal, Change("messages", "DELETE", id, OpenConv))
                        ELSE wal
            /\ mFetches' = Append(mFetches, [pc |-> "sent", ok |-> FALSE, data |-> <<>>])
            /\ UNCHANGED mToast
       ELSE /\ mToast' = "delete-error"
            /\ UNCHANGED <<msgRows, wal, mFetches>>
  /\ UNCHANGED <<messages, mLoading, msgEvents, mHandlers, rSent, rPc>>
  /\ UNCHANGED <<convRows, memberRows, nextConvId, nextMemberId, convClock>>
  /\ UNCHANGED <<nextMsgId, newMessage, selectedFile, sending, hsPc, hsLocals, sendToast>>
  /\ UNCHANGED <<contactVars, storyVars, convListVars, typingVars, extVars>>

\* The other member's sendMessage: the insert
RemoteSendInsert ==
  /\ rPc = "idle"
  /\ rSent < MaxRemote
  /\ LET row == NewMessageRow(nextMsgId, "b", <<"x">>, "text", Undefined, Undefined)
     IN  /\ MessagesInsertPolicy("b", row, memberRows)
         /\ msgRows' = msgRows \cup {row}
         /\ wal' = Append(wal, Change("messages", "INSERT", row.id, OpenConv))
  /\ nextMsgId' = nextMsgId + 1
  /\ rSent' = rSent + 1
  /\ rPc' = "touch"
  /\ UNCHANGED <<messages, mLoading, mFetches, msgEvents, mHandlers, mToast>>
  /\ UNCHANGED <<convRows, memberRows, nextConvId, nextMemberId, convClock>>
  /\ UNCHANGED <<newMessage, selectedFile, sending, hsPc, hsLocals, sendToast>>
  /\ UNCHANGED <<contactVars, storyVars, convListVars, typingVars, extVars>>

\* The other member's sendMessage: the update of conversations.updated_at
RemoteSendTouch ==
  /\ rPc = "touch"
  /\ rPc' = "idle"
  /\ convClock' = convClock + 1
  /\ convRows' = TouchConversation("b", convRows, memberRows, OpenConv, convClock + 1)
  /\ wal' = IF convRows' # convRows
              THEN Append(wal, Change("conversations", "UPDATE", OpenConv, OpenConv))
              ELSE wal
  /\ UNCHANGED <<messages, mLoading, mFetches, msgEvents, mHandlers, rSent, mToast>>
  /\ UNCHANGED <<memberRows, nextConvId, nextMemberId, composerVars>>
  /\ UNCHANGED <<contactVars, storyVars, convListVars, typingVars, extVars>>

MaxSweeps == 1

\* CREATE POLICY "Users can update their own messages": USING
MessagesUpdatePolicyAnyMember(uid, r, members) ==
  \E m \in members : m.conversation_id = r.conversation_id /\ m.user_id = uid

MessagesUpdatePolicy(uid, r, members) == r.sender_id = uid

InitRead ==
  /\ sweeps = 0
  /\ sweepTargets = [by |-> "nobody", ids |-> {}]

\* The rows markAsRead's filters match: the conversation's unread messages
\* of the other senders
SweepMatches(uid, rows, conv) ==
  {r \in rows : r.conversation_id = conv /\ r.sender_id # uid /\ ~r.is_read}

\* ChatView's markAsRead, run by its effect at mount and whenever
\* `messages` changes, reaches the gateway: the update applies to the
\* matched rows the update policy lets the user update.
MarkAsRead(u) ==
  /\ sweeps < MaxSweeps
  /\ sweeps' = sweeps + 1
  /\ LET hit == {r \in SweepMatches(u, msgRows, OpenConv) :
                   MessagesUpdatePolicy(u, r, memberRows)}
     IN  msgRows' = (msgRows \ hit) \cup {[r EXCEPT !.is_read = TRUE] : r \in hit}
  /\ sweepTargets' = [by |-> u,
                       ids |-> {r.id : r \in SweepMatches(u, msgRows, OpenConv)}]
  /\ UNCHANGED <<nextMsgId, newMessage, selectedFile, sending, hsPc, hsLocals, sendToast>>
  /\ UNCHANGED <<contactVars, storyVars, convTables, convListVars, typingVars,
                 msgListVars>>
  /\ UNCHANGED <<viewerVars, authVars, storyDialogVars, lateVars>>

NextMsgList ==
  \/ \E i \in 1..Len(mFetches) : \E ok \in BOOLEAN : FetchMessagesQuery(i, ok)
  \/ \E i \in 1..Len(mFetches) : FetchMessagesDone(i)
  \/ RealtimePoll
  \/ MessageInserted
  \/ \E i \in 1..Len(mHandlers) : MessageRowQuery(i)
  \/ \E i \in 1..Len(mHandlers) : MessageRowDone(i)
  \/ \E id \in 1..(MaxMessages + MaxRemote) : \E ok \in BOOLEAN :
       HandleDeleteMessage(id, ok)
  \/ RemoteSendInsert
  \/ RemoteSendTouch
  \/ HandleInputChange(<<"x">>)
  \/ HandleSend
  \/ \E ok \in BOOLEAN : SendMessageInsert(ok)
  \/ SendMessageTouch(TRUE)

\* C10: once the first load is over, every change of the local message list
\* appends one message at its end: nothing is removed from it and the
\* messages already in it keep their order.
C10_MessageListAppendOnly ==
  [][(~mLoading /\ messages' # messages) =>
       \E id \in 1..(MaxMessages + MaxRemote) : messages' = Append(messages, id)]_vars

\* The list has lost a message it held after the first load.
C10_Witness ==
  /\ ~mLoading
  /\ messages = <<>>
  /\ mFetches = <<>>
  /\ mHandlers = <<>>
  /\ msgEvents = <<>>
  /\ wal = <<>>
  /\ nextMsgId > 1

\* The message list with the mark-as-read sweeps of both members
\* The open conversation while the other member sends and both members'
\* ChatViews sweep
NextRead ==
  \/ \E i \in 1..Len(mFetches) : \E ok \in BOOLEAN : FetchMessagesQuery(i, ok)
  \/ \E i \in 1..Len(mFetches) : FetchMessagesDone(i)
  \/ RealtimePoll
  \/ MessageInserted
  \/ \E i \in 1..Len(mHandlers) : MessageRowQuery(i)
  \/ \E i \in 1..Len(mHandlers) : MessageRowDone(i)
  \/ RemoteSendInsert
  \/ RemoteSendTouch
  \/ \E u \in Sessions : MarkAsRead(u)

\* C28: once a sweep of member a, who has the conversation open, has
\* reached the gateway with a message of the other member among the rows
\* its filters match, that message comes to have is_read true in the store.
C28_OthersMessagesEventuallyRead ==
  \A id \in 1..(MaxMessages + MaxRemote) :
    (/\ sweepTargets.by = "a"
     /\ id \in sweepTargets.ids
     /\ \E r \in msgRows : r.id = id /\ r.sender_id = "b")
      ~> (\A r \in msgRows : r.id = id => r.is_read)

\* a's list shows b's message, a's sweep has matched it, nothing is in
\* flight, and the store still holds it unread.
C28_Witness ==
  /\ sweepTargets = [by |-> "a", ids |-> {1}]
  /\ messages = <<1>>
  /\ mFetches = <<>> /\ mHandlers = <<>> /\ msgEvents = <<>> /\ wal = <<>>
  /\ rPc = "idle"
  /\ \E r \in msgRows : r.id = 1 /\ r.sender_id = "b" /\ ~r.is_read

\* C26: with no message deleted so far, once no fetchMessages run, no
\* insert notification and no single-row fetch is in flight and the realtime
\* service has nothing left to send, the local list holds every message of
\* the open conversation, each exactly once.
C26_EveryMessageExactlyOnce ==
  (/\ Cardinality(msgRows) = nextMsgId - 1
   /\ mFetches = <<>>
   /\ mHandlers = <<>>
   /\ msgEvents = <<>>
   /\ wal = <<>>)
    => \A r \in msgRows : SeqCount(r.id, messages) = 1

\* Everything has completed, nothing was deleted, and the list holds the
\* other member's message twice.
C26_Witness ==
  /\ Cardinality(msgRows) = 1
  /\ nextMsgId = 2
  /\ mFetches = <<>>
  /\ mHandlers = <<>>
  /\ msgEvents = <<>>
  /\ wal = <<>>
  /\ messages = <<1, 1>>

NextMsgOwner ==
  \/ NextMsgList
  \/ \E u \in Sessions : MarkAsRead(u)

---------------------------------------------------------------------------
(* StoryViewer on its own: the progress timer and goToNext, for any
   sequence of stories and with or without an onNextUser callback *)

MaxSeq == 2
MaxMounts == 2
MaxNextUsers == 2

StoryDuration == 5000

TickInterval == 100

InitViewer ==
  /\ vOpen = FALSE
  /\ vLen = 0
  /\ vOnNextUser = FALSE
  /\ vIndex = 0
  /\ progress = 0
  /\ isPaused = FALSE
  /\ nextUserCalls = 0
  /\ closeCalls = 0
  /\ vMounts = 0

\* A parent renders a StoryViewer with n stories, initialIndex 0, and with
\* or without onNextUser.
MountViewer(n, withNextUser) ==
  /\ ~vOpen
  /\ vMounts < MaxMounts
  /\ n \in 1..MaxSeq
  /\ vOpen' = TRUE
  /\ vLen' = n
  /\ vOnNextUser' = withNextUser
  /\ vIndex' = 0
  /\ progress' = 0
  /\ isPaused' = FALSE
  /\ vMounts' = vMounts + 1
  /\ UNCHANGED <<nextUserCalls, closeCalls>>
  /\ UNCHANGED nonViewerVars

\* The parent stops rendering the viewer: its state is gone.
Unmounted ==
  /\ vOpen' = FALSE
  /\ vLen' = 0
  /\ vOnNextUser' = FALSE
  /\ vIndex' = 0
  /\ isPaused' = FALSE

\* goToNext: currentIndex < stories.length - 1
HasNextStoryOffByOne(idx, n) == idx < n

HasNextStory(idx, n) == idx < n - 1

\* goToNext.  onNextUser is the parent's: it passes another sequence to the
\* viewer, which stays mounted and keeps its index, or it stops rendering
\* the viewer; onClose stops rendering it.
ViewerGoToNext ==
  IF HasNextStory(vIndex, vLen)
    THEN /\ vIndex' = vIndex + 1
         /\ UNCHANGED <<vOpen, vLen, vOnNextUser, isPaused, nextUserCalls, closeCalls>>
    ELSE IF vOnNextUser
      THEN /\ nextUserCalls' = nextUserCalls + 1
           /\ UNCHANGED closeCalls
           /\ \/ /\ nextUserCalls < MaxNextUsers
                 /\ \E m \in 1..MaxSeq : vLen' = m
                 /\ UNCHANGED <<vOpen, vOnNextUser, vIndex, isPaused>>
              \/ Unmounted
      ELSE /\ closeCalls' = closeCalls + 1
           /\ UNCHANGED nextUserCalls
           /\ Unmounted

\* The interval callback's updater: prev + 100 / (STORY_DURATION / 100)
NewProgress(prev) == prev + 100 \div (StoryDuration \div TickInterval)

\* The interval callback, every 100 ms while not paused
IntervalTick ==
  /\ vOpen
  /\ ~isPaused
  /\ IF NewProgress(progress) >= 100
       THEN /\ ViewerGoToNext
            /\ progress' = 0
       ELSE /\ progress' = NewProgress(progress)
            /\ UNCHANGED <<vOpen, vLen, vOnNextUser, vIndex, isPaused,
                           nextUserCalls, closeCalls>>
  /\ UNCHANGED vMounts
  /\ UNCHANGED nonViewerVars

\* The right arrow or the next button: goToNext, which resets the progress
\* when it advances the index
ArrowRight ==
  /\ vOpen
  /\ ViewerGoToNext
  /\ progress' = IF HasNextStory(vIndex, vLen) \/ ~vOpen' THEN 0 ELSE progress
  /\ UNCHANGED vMounts
  /\ UNCHANGED nonViewerVars

\* onMouseDown / onTouchStart and onMouseUp / onTouchEnd on the story
SetIsPaused(p) ==
  /\ vOpen
  /\ isPaused # p
  /\ isPaused' = p
  /\ UNCHANGED <<vOpen, vLen, vOnNextUser, vIndex, progress, nextUserCalls,
                 closeCalls, vMounts>>
  /\ UNCHANGED nonViewerVars

NextViewer ==
  \/ \E n \in 1..MaxSeq, w \in BOOLEAN : MountViewer(n, w)
  \/ IntervalTick
  \/ ArrowRight
  \/ \E p \in BOOLEAN : SetIsPaused(p)

\* C14: when the interval callback brings the progress of story i of n to
\* 100: if i < n - 1 the index becomes i + 1 and the progress 0, and no
\* callback is called; otherwise, with an onNextUser callback, that callback
\* is called once and onClose is not; without one, onClose is called once
\* and the viewer is closed.
C14_TimerAdvancesOrHandsOver ==
  [][(IntervalTick /\ NewProgress(progress) >= 100) =>
       IF vIndex < vLen - 1
         THEN /\ vIndex' = vIndex + 1
              /\ progress' = 0
              /\ vOpen'
              /\ nextUserCalls' = nextUserCalls
              /\ closeCalls' = closeCalls
         ELSE IF vOnNextUser
           THEN /\ nextUserCalls' = nextUserCalls + 1
                /\ closeCalls' = closeCalls
                /\ vIndex' \in {vIndex, 0}
           ELSE /\ closeCalls' = closeCalls + 1
                /\ nextUserCalls' = nextUserCalls
                /\ ~vOpen']_vars

\* The timer is about to reach 100% on the last story of a sequence of two,
\* in a viewer without onNextUser, after a viewer with onNextUser has
\* handed over.
C14_Witness ==
  /\ vOpen
  /\ ~vOnNextUser
  /\ vLen = 2
  /\ vIndex = 1
  /\ NewProgress(progress) >= 100
  /\ nextUserCalls > 0

\* C21: when onNextUser passes another author's sequence to the viewer, the
\* story then displayed is the first one of that sequence (index 0) with
\* progress 0, and the index lies within the bounds of the new sequence.
C21_NextUserShowsFirstStory ==
  [][(nextUserCalls' # nextUserCalls /\ vOpen') =>
       /\ vIndex' = 0
       /\ progress' = 0
       /\ vIndex' < vLen']_vars

\* After a handover the viewer shows index 1 of a sequence of one story:
\* stories[currentIndex] is undefined.
C21_Witness ==
  /\ vOpen
  /\ nextUserCalls > 0
  /\ vLen = 1
  /\ vIndex = 1

---------------------------------------------------------------------------
(* Auth page: validateForm and handleSubmit *)

MaxFieldLen == 7
MaxSubmits == 2

MinUsername == 3

MinPassword == 6

Fields == {"username", "email", "password"}

\* The addresses typed into the email input
Emails ==
  { <<>>,
    <<"a", "@", "a", ".", "a", "a">>,
    <<"a", ".", "a", "@", "a", ".", "a", "a">>,
    <<"a", "@", "a">>,
    <<"a", "@", "a", ".", "a">>,
    <<".", "a", "@", "a", ".", "a", "a">>,
    <<"a", "@", "@", "a", ".", "a", "a">>,
    <<"a", "a">> }

\* The positions of c in s
Positions(s, c) == {i \in 1..Len(s) : s[i] = c}

\* z.string().email(): one "@"; a local part that is not empty, does not
\* begin or end with a dot and has no two dots in a row; a domain of two or
\* more non-empty labels, the last of two letters or more
EmailValid(e) ==
  /\ Cardinality(Positions(e, "@")) = 1
  /\ LET at == CHOOSE i \in Positions(e, "@") : TRUE
         local == SubSeq(e, 1, at - 1)
         domain == SubSeq(e, at + 1, Len(e))
         dots == Positions(domain, ".")
     IN  /\ local # <<>>
         /\ local[1] # "." /\ local[Len(local)] # "."
         /\ \A i \in 1..(Len(e) - 1) : ~(e[i] = "." /\ e[i + 1] = ".")
         /\ dots # {}
         /\ domain[1] # "."
         /\ \A i \in dots : Len(domain) - i >= 1
         /\ \E last \in dots :
              /\ \A i \in dots : i <= last
              /\ Len(domain) - last >= 2

NoErrors == [f \in Fields |-> ""]

\* signInSchema.parse: the message of each failing field
SignInErrors(e, p) ==
  [f \in Fields |->
     IF f = "email" /\ ~EmailValid(e) THEN "Email invalide"
     ELSE IF f = "password" /\ Len(p) < 1 THEN "Mot de passe requis"
     ELSE ""]

\* signUpSchema.parse: the message of each failing field
SignUpErrorsNoUsername(n, e, p) ==
  [f \in Fields |->
     IF f = "email" /\ ~EmailValid(e) THEN "Email invalide"
     ELSE IF f = "password" /\ Len(p) < MinPassword THEN "6 caracteres"
     ELSE ""]

SignUpErrors(n, e, p) ==
  [f \in Fields |->
     IF f = "username" /\ Len(n) < MinUsername THEN "3 caracteres"
     ELSE IF f = "email" /\ ~EmailValid(e) THEN "Email invalide"
     ELSE IF f = "password" /\ Len(p) < MinPassword THEN "6 caracteres"
     ELSE ""]

InitAuth ==
  /\ isLogin = TRUE
  /\ email = <<>>
  /\ password = <<>>
  /\ username = <<>>
  /\ aLoading = FALSE
  /\ errors = NoErrors
  /\ aPc = "none"
  /\ aRequests = 0
  /\ aUser = FALSE
  /\ aToast = "none"

\* A field of characters "x" of a given length
Xs(n) == [i \in 1..n |-> "x"]

SetEmail(e) ==
  /\ ~aUser
  /\ email # e
  /\ email' = e
  /\ UNCHANGED <<isLogin, password, username, aLoading, errors, aPc, aRequests,
                 aUser, aToast>>
  /\ UNCHANGED nonAuthVars

SetPassword(p) ==
  /\ ~aUser
  /\ password # p
  /\ password' = p
  /\ UNCHANGED <<isLogin, email, username, aLoading, errors, aPc, aRequests,
                 aUser, aToast>>
  /\ UNCHANGED nonAuthVars

\* The username input is rendered on the sign-up form only.
SetUsername(n) ==
  /\ ~aUser
  /\ ~isLogin
  /\ username # n
  /\ username' = n
  /\ UNCHANGED <<isLogin, email, password, aLoading, errors, aPc, aRequests,
                 aUser, aToast>>
  /\ UNCHANGED nonAuthVars

\* The toggle under the form: setIsLogin(!isLogin); setErrors({})
ToggleMode ==
  /\ ~aUser
  /\ isLogin' = ~isLogin
  /\ errors' = NoErrors
  /\ UNCHANGED <<email, password, username, aLoading, aPc, aRequests, aUser, aToast>>
  /\ UNCHANGED nonAuthVars

\* validateForm: the errors it finds
ValidationErrors ==
  IF isLogin THEN SignInErrors(email, password)
  ELSE SignUpErrors(username, email, password)

\* handleSubmit up to its await (the submit button is disabled while
\* loading)
HandleSubmit ==
  /\ ~aUser
  /\ ~aLoading
  /\ aRequests < MaxSubmits
  /\ errors' = ValidationErrors
  /\ IF ValidationErrors = NoErrors
       THEN /\ aLoading' = TRUE
            /\ aPc' = IF isLogin THEN "signIn" ELSE "signUp"
            /\ aRequests' = aRequests + 1
       ELSE UNCHANGED <<aLoading, aPc, aRequests>>
  /\ UNCHANGED <<isLogin, email, password, username, aUser, aToast>>
  /\ UNCHANGED nonAuthVars

\* handleSubmit after its await: the toast, setLoading(false); on success
\* the user is set and the page navigates away
AuthAnswers(ok) ==
  /\ aPc # "none"
  /\ aToast' = IF ok THEN (IF aPc = "signIn" THEN "Bienvenue" ELSE "Compte cree")
               ELSE "Erreur"
  /\ aUser' = ok
  /\ aLoading' = FALSE
  /\ aPc' = "none"
  /\ UNCHANGED <<isLogin, email, password, username, errors, aRequests>>
  /\ UNCHANGED nonAuthVars

NextAuth ==
  \/ \E e \in Emails : SetEmail(e)
  \/ \E n \in 0..MaxFieldLen : SetPassword(Xs(n))
  \/ \E n \in 0..MaxFieldLen : SetUsername(Xs(n))
  \/ ToggleMode
  \/ HandleSubmit
  \/ \E ok \in BOOLEAN : AuthAnswers(ok)

\* C16: handleSubmit with a form that fails validation (email not an
\* address; on sign-in an empty password; on sign-up a password of fewer
\* than 6 characters or a username of fewer than 3) issues no request and
\* records an error for exactly the failing fields; with a form that passes
\* it issues one request, signIn or signUp according to the mode.
C16_NoRequestBeforeValidation ==
  [][HandleSubmit =>
       LET badEmail == ~EmailValid(email)
           badPassword == IF isLogin THEN Len(password) = 0 ELSE Len(password) < 6
           badUsername == ~isLogin /\ Len(username) < 3
       IN  IF badEmail \/ badPassword \/ badUsername
             THEN /\ aRequests' = aRequests
                  /\ aPc' = "none"
                  /\ ~aLoading'
                  /\ (errors'["email"] # "") <=> badEmail
                  /\ (errors'["password"] # "") <=> badPassword
                  /\ (errors'["username"] # "") <=> badUsername
             ELSE /\ aRequests' = aRequests + 1
                  /\ aPc' = IF isLogin THEN "signIn" ELSE "signUp"
                  /\ errors' = NoErrors]_vars

\* The sign-up form has been submitted with a username of two characters,
\* an address without a top-level domain and a password of five characters:
\* three errors and no request.
C16_Witness ==
  /\ ~isLogin
  /\ Len(username) = 2
  /\ email = <<"a", "@", "a">>
  /\ Len(password) = 5
  /\ errors["username"] # "" /\ errors["email"] # "" /\ errors["password"] # ""
  /\ aRequests = 0
  /\ aPc = "none"

---------------------------------------------------------------------------
(* CreateStoryDialog: what a published story row holds *)

MaxDialogStories == 2

\* BACKGROUND_COLORS: the default and another one
BackgroundColors == {<<"#1a1a2e">>, <<"#e94560">>}

DefaultColor == <<"#1a1a2e">>

StoryTexts == {<<>>, <<" ">>, <<"x">>}

\* The files the image picker can hand over (accept="image/*")
StoryImages == {f \in Files : StartsWith(f.type, <<"image", "/">>)}

InitStoryDialog ==
  /\ mode = "text"
  /\ storyContent = <<>>
  /\ backgroundColor = DefaultColor
  /\ imageFile = NoFile
  /\ creating = FALSE
  /\ csPc = "idle"
  /\ csArgs = [mode |-> "text", content |-> <<>>, color |-> DefaultColor,
               file |-> NoFile, imageUrl |-> Null]
  /\ dlgStories = {}
  /\ csToast = "none"

NoCreate ==
  [mode |-> "text", content |-> <<>>, color |-> DefaultColor, file |-> NoFile,
   imageUrl |-> Null]

\* The "Texte" button: setMode("text")
SetModeText ==
  /\ mode # "text"
  /\ mode' = "text"
  /\ UNCHANGED <<storyContent, backgroundColor, imageFile, creating, csPc, csArgs,
                 dlgStories, csToast>>
  /\ UNCHANGED nonStoryDialogVars

\* handleImageSelect (the "Image" button opens the picker)
HandleImageSelect(f) ==
  /\ imageFile' = f
  /\ mode' = "image"
  /\ UNCHANGED <<storyContent, backgroundColor, creating, csPc, csArgs, dlgStories,
                 csToast>>
  /\ UNCHANGED nonStoryDialogVars

\* The X button on the preview, shown in image mode with a preview
RemoveImage ==
  /\ mode = "image"
  /\ imageFile # NoFile
  /\ imageFile' = NoFile
  /\ mode' = "text"
  /\ UNCHANGED <<storyContent, backgroundColor, creating, csPc, csArgs, dlgStories,
                 csToast>>
  /\ UNCHANGED nonStoryDialogVars

\* The textarea, shown unless the image preview is
SetContent(t) ==
  /\ ~(mode = "image" /\ imageFile # NoFile)
  /\ storyContent # t
  /\ storyContent' = t
  /\ UNCHANGED <<mode, backgroundColor, imageFile, creating, csPc, csArgs,
                 dlgStories, csToast>>
  /\ UNCHANGED nonStoryDialogVars

\* The colour buttons, shown in text mode
SetBackgroundColor(c) ==
  /\ mode = "text"
  /\ backgroundColor # c
  /\ backgroundColor' = c
  /\ UNCHANGED <<mode, storyContent, imageFile, creating, csPc, csArgs, dlgStories, csToast>>
  /\ UNCHANGED nonStoryDialogVars

\* handleClose: the state is reset
DialogReset ==
  /\ storyContent' = <<>>
  /\ imageFile' = NoFile
  /\ mode' = "text"
  /\ backgroundColor' = DefaultColor

\* The dialog is closed by the user
HandleClose ==
  /\ <<storyContent, imageFile, mode, backgroundColor>> #
       <<<<>>, NoFile, "text", DefaultColor>>
  /\ DialogReset
  /\ UNCHANGED <<creating, csPc, csArgs, dlgStories, csToast>>
  /\ UNCHANGED nonStoryDialogVars

\* CreateStoryDialog.handleCreate up to its first await (the button is
\* disabled while creating)
HandleCreateStory ==
  /\ ~creating
  /\ Cardinality(dlgStories) < MaxDialogStories
  /\ IF mode = "text" /\ Trim(storyContent) = <<>>
       THEN /\ csToast' = "no-text"
            /\ UNCHANGED <<creating, csPc, csArgs>>
       ELSE IF mode = "image" /\ imageFile = NoFile
         THEN /\ csToast' = "no-image"
              /\ UNCHANGED <<creating, csPc, csArgs>>
         ELSE /\ creating' = TRUE
              /\ csArgs' = [mode |-> mode, content |-> storyContent,
                            color |-> backgroundColor, file |-> imageFile,
                            imageUrl |-> Null]
              /\ csPc' = IF imageFile # NoFile THEN "upload" ELSE "insert"
              /\ UNCHANGED csToast
  /\ UNCHANGED <<mode, storyContent, backgroundColor, imageFile, dlgStories>>
  /\ UNCHANGED nonStoryDialogVars

\* uploadStoryMedia answers; an error is thrown to the catch
StoryUploadDone(ok) ==
  /\ csPc = "upload"
  /\ IF ok
       THEN /\ csArgs' = [csArgs EXCEPT !.imageUrl = PublicUrl(Me, csArgs.file)]
            /\ csPc' = "insert"
            /\ UNCHANGED <<creating, csToast>>
       ELSE /\ csToast' = "error"
            /\ creating' = FALSE
            /\ csPc' = "idle"
            /\ csArgs' = NoCreate
  /\ UNCHANGED <<mode, storyContent, backgroundColor, imageFile, dlgStories>>
  /\ UNCHANGED nonStoryDialogVars

\* The row handleCreate inserts
StoryRowOf(id, uid, args) ==
  [id |-> id, user_id |-> uid,
   content |-> IF args.mode = "text" THEN args.content ELSE Null,
   image_url |-> args.imageUrl,
   background_color |-> IF args.mode = "text" THEN args.color ELSE Null]

\* The stories insert answers: on success the toast, onCreated and
\* handleClose; on error the catch
StoryInsertDone(ok) ==
  /\ csPc = "insert"
  /\ LET row == StoryRowOf(Cardinality(dlgStories) + 1, Me, csArgs)
     IN  IF ok /\ StoriesInsertPolicy(Me, row)
           THEN /\ dlgStories' = dlgStories \cup {row}
                /\ csToast' = "published"
                /\ DialogReset
           ELSE /\ csToast' = "error"
                /\ UNCHANGED <<dlgStories, mode, storyContent, backgroundColor, imageFile>>
  /\ creating' = FALSE
  /\ csPc' = "idle"
  /\ csArgs' = NoCreate
  /\ UNCHANGED nonStoryDialogVars

NextStoryDialog ==
  \/ SetModeText
  \/ \E f \in StoryImages : HandleImageSelect(f)
  \/ RemoveImage
  \/ \E t \in StoryTexts : SetContent(t)
  \/ \E c \in BackgroundColors : SetBackgroundColor(c)
  \/ HandleClose
  \/ HandleCreateStory
  \/ \E ok \in BOOLEAN : StoryUploadDone(ok)
  \/ \E ok \in BOOLEAN : StoryInsertDone(ok)

\* C19: every story row published through the dialog is either text only
\* (content and background colour set, no image) or image only (image set,
\* no content and no background colour).
C19_TextOrImageExclusive ==
  \A r \in dlgStories :
    \/ r.content # Null /\ r.background_color # Null /\ r.image_url = Null
    \/ r.image_url # Null /\ r.content = Null /\ r.background_color = Null

\* A published story holds a text, a background colour and an image.
C19_Witness ==
  \E r \in dlgStories :
    /\ r.content = <<"x">>
    /\ r.background_color # Null
    /\ r.image_url # Null

---------------------------------------------------------------------------
(* useMessages across a change of conversation: ChatView is rendered without
   a key, so when another conversation is selected the hook stays mounted,
   keeps its state, and its effect runs again for the new conversationId *)

MaxSwitches == 2
MaxSwitchMessages == 2

Conversations == {"X", "Y"}

InitSwitch ==
  /\ swConversationId = "X"
  /\ swRows = {}
  /\ swMessages = <<>>
  /\ swFetches = <<[conv |-> "X", pc |-> "sent", data |-> <<>>]>>
  /\ swEvents = <<>>
  /\ swHandlers = <<>>
  /\ swSwitches = 0

\* fetchMessages: the rows of the conversation the run closed over
RECURSIVE SortSwitchRows(_)
SortSwitchRows(S) ==
  IF S = {} THEN <<>>
  ELSE LET m == CHOOSE r \in S : \A q \in S : r.id <= q.id
       IN  <<m>> \o SortSwitchRows(S \ {m})

\* Index.handleSelectConversation with another conversation: the effect's
\* cleanup removes the channel (what it had still to deliver is dropped), the
\* effect calls fetchMessages and subscribes for the new conversation.
\* `messages` is left as it is; requests already sent are not cancelled.
HandleSelectConversation(c) ==
  /\ c # swConversationId
  /\ swSwitches < MaxSwitches
  /\ swSwitches' = swSwitches + 1
  /\ swConversationId' = c
  /\ swEvents' = <<>>
  /\ swFetches' = Append(swFetches, [conv |-> c, pc |-> "sent", data |-> <<>>])
  /\ UNCHANGED <<swRows, swMessages, swHandlers>>
  /\ UNCHANGED nonSwitchVars

\* A member inserts a message into conversation c; the channel, whose
\* filter is conversation_id=eq.conversationId, is notified of it.
SwitchInsert(c) ==
  /\ Cardinality(swRows) < MaxSwitchMessages
  /\ LET row == [id |-> Cardinality(swRows) + 1, conv |-> c]
     IN  /\ swRows' = swRows \cup {row}
         /\ swEvents' = IF c = swConversationId THEN Append(swEvents, row.id)
                        ELSE swEvents
  /\ UNCHANGED <<swConversationId, swMessages, swFetches, swHandlers, swSwitches>>
  /\ UNCHANGED nonSwitchVars

\* The INSERT callback up to its await
SwitchMessageInserted ==
  /\ swEvents # <<>>
  /\ swEvents' = Tail(swEvents)
  /\ swHandlers' = Append(swHandlers, [id |-> Head(swEvents)])
  /\ UNCHANGED <<swConversationId, swRows, swMessages, swFetches, swSwitches>>
  /\ UNCHANGED nonSwitchVars

\* The callback after its await (the single-row query has answered):
\* setMessages((prev) => [...prev, data])
SwitchMessageRowDone(i) ==
  /\ i \in 1..Len(swHandlers)
  /\ swMessages' = Append(swMessages,
                          CHOOSE r \in swRows : r.id = swHandlers[i].id)
  /\ swHandlers' = RemoveAt(swHandlers, i)
  /\ UNCHANGED <<swConversationId, swRows, swFetches, swEvents, swSwitches>>
  /\ UNCHANGED nonSwitchVars

\* fetchMessages: the gateway runs the query
SwitchFetchQuery(i) ==
  /\ i \in 1..Len(swFetches)
  /\ swFetches[i].pc = "sent"
  /\ swFetches' = [swFetches EXCEPT ![i] =
       [@ EXCEPT !.pc = "answered",
                 !.data = SortSwitchRows({r \in swRows : r.conv = swFetches[i].conv})]]
  /\ UNCHANGED <<swConversationId, swRows, swMessages, swEvents, swHandlers, swSwitches>>
  /\ UNCHANGED nonSwitchVars

\* fetchMessages after its await: setMessages(data)
SwitchFetchDone(i) ==
  /\ i \in 1..Len(swFetches)
  /\ swFetches[i].pc = "answered"
  /\ swMessages' = swFetches[i].data
  /\ swFetches' = RemoveAt(swFetches, i)
  /\ UNCHANGED <<swConversationId, swRows, swEvents, swHandlers, swSwitches>>
  /\ UNCHANGED nonSwitchVars

NextSwitch ==
  \/ \E c \in Conversations : HandleSelectConversation(c)
  \/ \E c \in Conversations : SwitchInsert(c)
  \/ SwitchMessageInserted
  \/ \E i \in 1..Len(swHandlers) : SwitchMessageRowDone(i)
  \/ \E i \in 1..Len(swFetches) : SwitchFetchQuery(i)
  \/ \E i \in 1..Len(swFetches) : SwitchFetchDone(i)

\* C27: every message in the local list of useMessages belongs to the
\* conversation currently passed to the hook.
C27_ListIsOfCurrentConversation ==
  \A i \in 1..Len(swMessages) : swMessages[i].conv = swConversationId

\* Y is shown, no request is in flight, and the list holds Y's message
\* followed by a message of X, appended by a callback that was at its await
\* when the user switched.
C27_Witness ==
  /\ swConversationId = "Y"
  /\ swFetches = <<>>
  /\ swHandlers = <<>>
  /\ swEvents = <<>>
  /\ Len(swMessages) = 2
  /\ swMessages[1].conv = "Y"
  /\ swMessages[2].conv = "X"

---------------------------------------------------------------------------
(* useProfile: every component that calls the hook runs its effect, which
   writes the user's is_online at mount, at unmount and when the page is
   hidden or shown *)

MaxProfileActs == 3

\* Sidebar is rendered as long as the user is signed in; the others come
\* and go with the tab and the selected conversation.
ProfileUsers == {"Sidebar", "StoriesView", "SettingsView", "ChatView"}

InitProfile ==
  /\ pMounted = {"Sidebar"}
  /\ pUpdates = <<TRUE>>
  /\ isOnline = FALSE
  /\ docHidden = FALSE
  /\ pActs = 0

\* A component that uses useProfile mounts: updateOnlineStatus(true)
ProfileMount(c) ==
  /\ c \notin pMounted
  /\ pActs < MaxProfileActs
  /\ pActs' = pActs + 1
  /\ pMounted' = pMounted \cup {c}
  /\ pUpdates' = Append(pUpdates, TRUE)
  /\ UNCHANGED <<isOnline, docHidden>>
  /\ UNCHANGED nonProfileVars

\* It unmounts: the effect's cleanup calls updateOnlineStatus(false)
ProfileUnmount(c) ==
  /\ c \in pMounted
  /\ c # "Sidebar"
  /\ pActs < MaxProfileActs
  /\ pActs' = pActs + 1
  /\ pMounted' = pMounted \ {c}
  /\ pUpdates' = Append(pUpdates, FALSE)
  /\ UNCHANGED <<isOnline, docHidden>>
  /\ UNCHANGED nonProfileVars

\* The updates the visibilitychange listeners send: one per mounted hook
RECURSIVE Repeat(_, _)
Repeat(x, n) == IF n = 0 THEN <<>> ELSE <<x>> \o Repeat(x, n - 1)

\* visibilitychange: every mounted hook's handleVisibilityChange calls
\* updateOnlineStatus(!document.hidden)
HandleVisibilityChange ==
  /\ pActs < MaxProfileActs
  /\ pActs' = pActs + 1
  /\ docHidden' = ~docHidden
  /\ pUpdates' = pUpdates \o Repeat(docHidden, Cardinality(pMounted))
  /\ UNCHANGED <<pMounted, isOnline>>
  /\ UNCHANGED nonProfileVars

\* One of the update requests reaches the gateway (each is a request of its
\* own: they are applied in any order); the policy lets a user update their
\* own profile.
UpdateOnlineStatus(i) ==
  /\ i \in 1..Len(pUpdates)
  /\ isOnline' = pUpdates[i]
  /\ pUpdates' = RemoveAt(pUpdates, i)
  /\ UNCHANGED <<pMounted, docHidden, pActs>>
  /\ UNCHANGED nonProfileVars

NextProfile ==
  \/ \E c \in ProfileUsers : ProfileMount(c)
  \/ \E c \in ProfileUsers : ProfileUnmount(c)
  \/ HandleVisibilityChange
  \/ \E i \in 1..Len(pUpdates) : UpdateOnlineStatus(i)

\* C29: with the page visible, a component using useProfile mounted and no
\* update pending, the user's is_online in the store is true.
C29_OnlineWhileOpen ==
  (/\ ~docHidden
   /\ pMounted # {}
   /\ pUpdates = <<>>)
    => isOnline

\* StoriesView has mounted and unmounted while Sidebar stays mounted; every
\* update has been applied and the flag is false.
C29_Witness ==
  /\ pMounted = {"Sidebar"}
  /\ ~docHidden
  /\ pActs = 2
  /\ pUpdates = <<>>
  /\ ~isOnline

---------------------------------------------------------------------------
Init ==
  /\ InitContacts /\ InitStories /\ InitConvTables /\ InitComposer
  /\ InitConvList /\ InitTyping /\ InitMsgList
  /\ InitViewer /\ InitAuth /\ InitStoryDialog /\ InitRead /\ InitSwitch
  /\ InitProfile

SpecContacts == Init /\ [][NextContacts]_vars

InitJoined ==
  /\ InitContacts /\ InitStories /\ InitConvTables /\ InitComposer
  /\ InitConvList /\ InitTypingJoined /\ InitMsgList
  /\ InitViewer /\ InitAuth /\ InitStoryDialog /\ InitRead /\ InitSwitch
  /\ InitProfile

SpecTypingJoined == InitJoined /\ [][NextTypingJoined]_vars

SpecStories == Init /\ [][NextStories]_vars

SpecSend == Init /\ [][NextSend]_vars

SpecConvList == Init /\ [][NextConvList]_vars

SpecNewChat == Init /\ [][NextNewChat]_vars

\* The most fetchConversations runs a session can have in flight
FetchSlots == 1..(2 + 2 * MaxConvs)

FetchStep(u, i) ==
  FetchMemberIds(u, i) \/ FetchConvData(u, i) \/ FetchDetails(u, i)

\* Every gateway answer arrives, the realtime service processes every
\* change and every notification is handled; the user is not obliged to
\* create anything.
FairSpecConvList ==
  /\ SpecConvList
  /\ \A u \in Sessions : \A i \in FetchSlots : WF_vars(FetchStep(u, i))
  /\ WF_vars(\E ok \in BOOLEAN : CreateInsertMembers(ok))
  /\ WF_vars(RealtimePoll)
  /\ \A u \in Sessions : WF_vars(ConversationsChanged(u))

\* The conversation lists while the other member of the open conversation
\* sends a message, which touches that conversation
NextConvOrder ==
  \/ \E sel \in Selections, ok \in BOOLEAN : HandleCreate(sel, FALSE, <<>>, ok)
  \/ \E ok \in BOOLEAN : CreateInsertMembers(ok)
  \/ \E i \in 1..Len(fetches[Creator]) : FetchMemberIds(Creator, i)
  \/ \E i \in 1..Len(fetches[Creator]) : FetchConvData(Creator, i)
  \/ \E i \in 1..Len(fetches[Creator]) : FetchDetails(Creator, i)
  \/ RealtimePoll
  \/ ConversationsChanged(Creator)
  \/ RemoteSendInsert
  \/ RemoteSendTouch

SpecConvOrder == Init /\ [][NextConvOrder]_vars

SpecTyping == Init /\ [][NextTyping]_vars

SpecStoryDialog == Init /\ [][NextStoryDialog]_vars

SpecAuth == Init /\ [][NextAuth]_vars

SpecTypingTeardown == Init /\ [][NextTypingTeardown]_vars

SpecSwitch == Init /\ [][NextSwitch]_vars

SpecProfile == Init /\ [][NextProfile]_vars

SpecViewer == Init /\ [][NextViewer]_vars

SpecMsgList == Init /\ [][NextMsgList]_vars

SpecMsgOwner == Init /\ [][NextMsgOwner]_vars

\* Every gateway answer arrives, every notification is delivered and
\* handled, and the sweeps the effect starts reach the gateway.
FairSpecRead ==
  /\ Init /\ [][NextRead]_vars
  /\ \A i \in 1..MaxFetches :
       /\ WF_vars(\E ok \in BOOLEAN : FetchMessagesQuery(i, ok))
       /\ WF_vars(FetchMessagesDone(i))
       /\ WF_vars(MessageRowQuery(i))
       /\ WF_vars(MessageRowDone(i))
  /\ WF_vars(RealtimePoll)
  /\ WF_vars(MessageInserted)
  /\ WF_vars(RemoteSendTouch)
  /\ \A u \in Sessions : WF_vars(MarkAsRead(u))

\* Channels join, the presence service applies and answers every call and
\* sends every state, armed timeouts fire and handlers run; the user is not
\* obliged to type or send.
FairSpecTyping ==
  /\ SpecTyping
  /\ \A u \in TypingMembers :
       /\ WF_vars(Subscribed(u))
       /\ WF_vars(PresenceApply(u))
       /\ WF_vars(StartTypingContinues(u))
       /\ WF_vars(TimerFires(u))
       /\ WF_vars(PresenceSync(u))

=============================================================================
